---- MODULE Spec2Model ----
(***************************************************************************)
(* Model of the pull command of phraseapp-client (src/pull.go).            *)
(*                                                                         *)
(* Go strings are modelled as sequences of one-character strings, so that  *)
(* strings.Count, strings.Replace and strings.Contains are computed        *)
(* character by character as the Go library computes them.  An error value *)
(* is a record [nil, msg]; msg is the text of the error as a sequence of   *)
(* tokens (characters of substituted values, and the fixed texts of the    *)
(* format strings as single tokens).                                       *)
(*                                                                         *)
(* Diagnostic output to stderr (the Debug flag) is not part of the state.  *)
(*                                                                         *)
(* The setup wizard (package wizard) is modelled with the stack of the     *)
(* calls of its steps, which call one another through DisplayWizard.       *)
(***************************************************************************)
EXTENDS Integers, Sequences, FiniteSets, TLC

VARIABLES
    config,       \* cmd.Config: Targets (as loaded from YAML), ProjectID, Token, FileFormat
    remote,       \* the remote service: project id -> locale catalog
    targets,      \* the Targets slice Run iterates (result of TargetsFromConfig)
    ti,           \* index in targets of the target being pulled
    localeFiles,  \* Pull's localeFiles slice of the current target
    fi,           \* index in localeFiles of the file being processed
    pc,           \* position of the control flow
    runErr,       \* the error returned (by Run, or by the function under test)
    fs,           \* filesystem: path of every existing regular file -> content
    dirs,         \* filesystem: paths of the existing directories
    trace,        \* the calls made to the collaborators and the filesystem, in order
    data,         \* the *WizardData the steps of the setup wizard share
    stack         \* the calls of the steps of the wizard that have not returned, last on top

vars == <<config, remote, targets, ti, localeFiles, fi, pc, runErr, fs, dirs, trace,
          data, stack>>

-----------------------------------------------------------------------------
(* Bounds of the model *)

\* number of fragments a file pattern of the precondition check is built from
MaxFrags == 4
\* number of records of a locale catalog
MaxLocales == 2
\* number of targets of a configuration
MaxTargets == 2

-----------------------------------------------------------------------------
(* Strings *)

LocaleNamePH == <<"<","l","o","c","a","l","e","_","n","a","m","e",">">>
LocaleCodePH == <<"<","l","o","c","a","l","e","_","c","o","d","e",">">>
TagPH == <<"<","t","a","g",">">>

Sep == "/"

\* the process's working directory, which filepath.Abs anchors relative paths to
Cwd == <<"/","w">>

\* strings.Count(s, substr) for a non-empty substr: non-overlapping occurrences,
\* scanned from the left
RECURSIVE Count(_, _)
Count(s, substr) ==
    IF Len(s) < Len(substr) THEN 0
    ELSE IF SubSeq(s, 1, Len(substr)) = substr
         THEN 1 + Count(SubSeq(s, Len(substr) + 1, Len(s)), substr)
         ELSE Count(Tail(s), substr)

\* strings.Contains(s, substr)
Contains(s, substr) ==
    \E i \in 1..(Len(s) - Len(substr) + 1) : SubSeq(s, i, i + Len(substr) - 1) = substr

\* strings.Replace(s, old, new, -1) for a non-empty old
RECURSIVE Replace(_, _, _)
Replace(s, old, new) ==
    IF Len(s) < Len(old) THEN s
    ELSE IF SubSeq(s, 1, Len(old)) = old
         THEN new \o Replace(SubSeq(s, Len(old) + 1, Len(s)), old, new)
         ELSE <<Head(s)>> \o Replace(Tail(s), old, new)

\* strings.Join(elems, sep)
RECURSIVE Join(_, _)
Join(elems, sep) ==
    IF Len(elems) = 0 THEN <<>>
    ELSE IF Len(elems) = 1 THEN elems[1]
    ELSE elems[1] \o sep \o Join(Tail(elems), sep)

\* the elements of a path between its separators (empty elements included)
RECURSIVE Split(_, _)
Split(s, cur) ==
    IF Len(s) = 0 THEN <<cur>>
    ELSE IF Head(s) = Sep THEN <<cur>> \o Split(Tail(s), <<>>)
    ELSE Split(Tail(s), Append(cur, Head(s)))

\* filepath.Clean on the elements of a path: "" and "." are dropped, ".." removes
\* the element before it (at the root it is dropped, in a relative path it is kept)
RECURSIVE CleanElems(_, _, _)
CleanElems(elems, out, rooted) ==
    IF Len(elems) = 0 THEN out
    ELSE LET e == Head(elems) IN
         IF e = <<>> \/ e = <<".">> THEN CleanElems(Tail(elems), out, rooted)
         ELSE IF e = <<".", ".">>
              THEN IF Len(out) > 0 /\ out[Len(out)] # <<".", ".">>
                   THEN CleanElems(Tail(elems), SubSeq(out, 1, Len(out) - 1), rooted)
                   ELSE IF rooted THEN CleanElems(Tail(elems), out, rooted)
                        ELSE CleanElems(Tail(elems), Append(out, e), rooted)
              ELSE CleanElems(Tail(elems), Append(out, e), rooted)

\* filepath.Clean(path)
Clean(path) ==
    LET rooted == Len(path) > 0 /\ path[1] = Sep
        elems  == CleanElems(Split(path, <<>>), <<>>, rooted)
    IN  IF rooted THEN <<Sep>> \o Join(elems, <<Sep>>)
        ELSE IF Len(elems) = 0 THEN <<".">>
        ELSE Join(elems, <<Sep>>)

\* filepath.Abs(path): an absolute path is cleaned, a relative one is joined to the
\* working directory
Abs(path) ==
    IF Len(path) > 0 /\ path[1] = Sep THEN Clean(path)
    ELSE IF Len(path) = 0 THEN Clean(Cwd)
    ELSE Clean(Cwd \o <<Sep>> \o path)

\* the index of the last separator of a path, 0 when it has none
LastSep(path) ==
    LET idx == {i \in 1..Len(path) : path[i] = Sep}
    IN  IF idx = {} THEN 0 ELSE CHOOSE i \in idx : \A j \in idx : j <= i

\* filepath.Dir(path)
Dir(path) ==
    LET k == LastSep(path)
    IN  IF k = 0 THEN <<".">> ELSE Clean(SubSeq(path, 1, k))

-----------------------------------------------------------------------------
(* Errors *)

NoError == [nil |-> TRUE, msg |-> <<>>]

Err(m) == [nil |-> FALSE, msg |-> m]

\* fmt.Errorf(format) without arguments: the format's verbs have no operand, "%%" is
\* a literal percent sign, every other token is copied
RECURSIVE Errorf(_)
Errorf(format) ==
    IF Len(format) = 0 THEN <<>>
    ELSE IF Head(format) # "%" THEN <<Head(format)>> \o Errorf(Tail(format))
    ELSE IF Len(format) = 1 THEN <<"%!(NOVERB)">>
    ELSE IF format[2] = "%" THEN <<"%">> \o Errorf(Tail(Tail(format)))
    ELSE <<"%!", format[2], "(MISSING)">> \o Errorf(Tail(Tail(format)))

-----------------------------------------------------------------------------
(* Target.CheckPreconditions *)

\* the outcomes of ValidPath(target.File, target.FileFormat, "")
ValidPathResults == {NoError, Err(<<"invalid file pattern">>)}

ErrStars == Err(<<"File pattern for 'pull' cannot include any 'stars' *.">>)

Placeholders == <<LocaleNamePH, LocaleCodePH, TagPH>>

\* line 109: fmt.Errorf(fmt.Sprintf("%s can only occur once in a file pattern!", dups))
ErrDuplicated(duplicatedPlaceholders) ==
    Err(Errorf(Join(duplicatedPlaceholders, <<",", " ">>)
               \o <<" can only occur once in a file pattern!">>))

\* CheckPreconditions accepting a placeholder that occurs twice
CheckPreconditionsBuggyDup(target, validPath) ==
    IF ~validPath.nil THEN validPath
    ELSE IF Count(target.File, <<"*">>) > 0 THEN ErrStars
    ELSE LET dups == SelectSeq(Placeholders, LAMBDA name : Count(target.File, name) > 2)
         IN  IF Len(dups) > 0 THEN ErrDuplicated(dups) ELSE NoError

\* CheckPreconditions accepting a single star
CheckPreconditionsBuggyStar(target, validPath) ==
    IF ~validPath.nil THEN validPath
    ELSE IF Count(target.File, <<"*">>) > 1 THEN ErrStars
    ELSE LET dups == SelectSeq(Placeholders, LAMBDA name : Count(target.File, name) > 1)
         IN  IF Len(dups) > 0 THEN ErrDuplicated(dups) ELSE NoError

\* CheckPreconditions counting the placeholders before it looks for a star
CheckPreconditionsDupFirst(target, validPath) ==
    IF ~validPath.nil THEN validPath
    ELSE LET dups == SelectSeq(Placeholders, LAMBDA name : Count(target.File, name) > 1)
         IN  IF Len(dups) > 0 THEN ErrDuplicated(dups)
             ELSE IF Count(target.File, <<"*">>) > 0 THEN ErrStars
             ELSE NoError

\* validPath is the result of the call of ValidPath at line 89
CheckPreconditions(target, validPath) ==
    IF ~validPath.nil THEN validPath
    ELSE IF Count(target.File, <<"*">>) > 0 THEN ErrStars
    ELSE LET dups == SelectSeq(Placeholders, LAMBDA name : Count(target.File, name) > 1)
         IN  IF Len(dups) > 0 THEN ErrDuplicated(dups) ELSE NoError

-----------------------------------------------------------------------------
(* Values of the configuration and of the remote service *)

S_locales == <<"/","l","o","c","a","l","e","s","/">>
S_yml == <<".","y","m","l">>
S_English == <<"E","n","g","l","i","s","h">>
S_German == <<"G","e","r","m","a","n">>
S_en == <<"e","n">>
S_de == <<"d","e">>
S_l1 == <<"l","1">>
S_l2 == <<"l","2">>
S_l3 == <<"l","3">>
S_l4 == <<"l","4">>
S_p1 == <<"p","1">>
S_p2 == <<"p","2">>
S_tok == <<"t","k">>
S_xx == <<"x","x">>
S_v1 == <<"v","1">>
S_fmt == <<"y","m","l">>
S_json == <<"j","s","o","n">>
S_xml == <<"x","m","l">>
S_old == <<"o","l","d">>

\* a *string that is nil or points to v
NilPtr == [nil |-> TRUE, v |-> <<>>]
Ptr(v) == [nil |-> FALSE, v |-> v]

\* a *phraseapp.Locale
NilLocale == [nil |-> TRUE, ID |-> <<>>, Name |-> <<>>, Code |-> <<>>]
Locale(id, name, code) == [nil |-> FALSE, ID |-> id, Name |-> name, Code |-> code]

\* a YAML value: a string, or a scalar of another type
YStr(v) == [type |-> "string", str |-> v]
YInt(v) == [type |-> "int", str |-> v]

-----------------------------------------------------------------------------
(* Target.UnmarshalYAML and TargetsFromConfig *)

\* a *PullParams
NilParams == [nil |-> TRUE, LocaleID |-> <<>>, Tag |-> NilPtr, FileFormat |-> NilPtr]

\* a *Target that is nil (a null entry of the targets list)
NilTarget ==
    [nil |-> TRUE, File |-> <<>>, ProjectID |-> <<>>, AccessToken |-> <<>>,
     FileFormat |-> <<>>, Params |-> NilParams, RemoteLocales |-> <<>>]

\* the keys LocaleDownloadParams.ApplyValuesFromMap sets in this model
ParamKeys == {"tag", "file_format"}

\* Params.ApplyValuesFromMap(m): every key of m must be a parameter of the download
ApplyValuesFromMap(params, m) ==
    IF \E k \in DOMAIN m : k \notin ParamKeys \/ m[k].type # "string"
    THEN [err |-> Err(<<"invalid parameter">>), params |-> params]
    ELSE [err |-> NoError,
          params |-> [params EXCEPT
              !.Tag = IF "tag" \in DOMAIN m THEN Ptr(m["tag"].str) ELSE @,
              !.FileFormat = IF "file_format" \in DOMAIN m
                             THEN Ptr(m["file_format"].str) ELSE @]]

\* m without the key k
MapDelete(m, k) == [x \in (DOMAIN m) \ {k} |-> m[x]]

\* the new target of line 63 with the fields yaml.Unmarshal fills at line 68
DecodedTarget(raw) ==
    [nil |-> FALSE, File |-> raw.file, ProjectID |-> raw.project_id,
     AccessToken |-> raw.access_token, FileFormat |-> raw.file_format,
     Params |-> [NilParams EXCEPT !.nil = FALSE], RemoteLocales |-> <<>>]

\* UnmarshalYAML handing the whole map to ApplyValuesFromMap, locale_id included
UnmarshalYAMLKeepingLocaleID(raw) ==
    LET tgt == DecodedTarget(raw)
        m == raw.params
    IN  IF "locale_id" \in DOMAIN m
        THEN IF m["locale_id"].type # "string"
             THEN [err |-> Err(<<"params.locale_id", " must be a string">>), target |-> tgt,
                   applied |-> [called |-> FALSE, m |-> <<>>]]
             ELSE LET r == ApplyValuesFromMap(
                               [tgt.Params EXCEPT !.LocaleID = m["locale_id"].str], m)
                  IN  [err |-> r.err, target |-> [tgt EXCEPT !.Params = r.params],
                       applied |-> [called |-> TRUE, m |-> m]]
        ELSE LET r == ApplyValuesFromMap(tgt.Params, m)
             IN  [err |-> r.err, target |-> [tgt EXCEPT !.Params = r.params],
                  applied |-> [called |-> TRUE, m |-> m]]

\* Target.UnmarshalYAML on one entry of the targets list: [err, target, applied];
\* applied tells whether ApplyValuesFromMap was called, and on which map
UnmarshalYAML(raw) ==
    LET tgt == DecodedTarget(raw)
        m == raw.params
    IN  IF "locale_id" \in DOMAIN m
        THEN IF m["locale_id"].type # "string"
             THEN [err |-> Err(<<"params.locale_id", " must be a string">>), target |-> tgt,
                   applied |-> [called |-> FALSE, m |-> <<>>]]
             ELSE LET r == ApplyValuesFromMap(
                               [tgt.Params EXCEPT !.LocaleID = m["locale_id"].str],
                               MapDelete(m, "locale_id"))
                  IN  [err |-> r.err, target |-> [tgt EXCEPT !.Params = r.params],
                       applied |-> [called |-> TRUE, m |-> MapDelete(m, "locale_id")]]
        ELSE LET r == ApplyValuesFromMap(tgt.Params, m)
             IN  [err |-> r.err, target |-> [tgt EXCEPT !.Params = r.params],
                  applied |-> [called |-> TRUE, m |-> m]]

\* yaml.Unmarshal(cmd.Config.Targets, &tmp): [err, targets]; a null entry is a nil
\* target, the first entry that fails to load fails the whole call
RECURSIVE UnmarshalTargets(_)
UnmarshalTargets(items) ==
    IF Len(items) = 0 THEN [err |-> NoError, targets |-> <<>>]
    ELSE LET rest == UnmarshalTargets(Tail(items))
             raw  == Head(items)
         IN  IF raw.null
             THEN IF rest.err.nil
                  THEN [err |-> NoError, targets |-> <<NilTarget>> \o rest.targets]
                  ELSE rest
             ELSE LET r == UnmarshalYAML(raw)
                  IN  IF ~r.err.nil THEN [err |-> r.err, targets |-> <<>>]
                      ELSE IF ~rest.err.nil THEN rest
                      ELSE [err |-> NoError, targets |-> <<r.target>> \o rest.targets]

\* the merge of lines 303-317 writing the defaults over the values of the target
RECURSIVE MergeDefaultsOverwriting(_, _)
MergeDefaultsOverwriting(tgts, cfg) ==
    IF Len(tgts) = 0 THEN <<>>
    ELSE LET target == Head(tgts)
         IN  IF target.nil THEN MergeDefaultsOverwriting(Tail(tgts), cfg)
             ELSE <<[target EXCEPT
                        !.ProjectID = cfg.ProjectID,
                        !.AccessToken = cfg.Token,
                        !.FileFormat = cfg.FileFormat]>>
                  \o MergeDefaultsOverwriting(Tail(tgts), cfg)

\* the merge of lines 303-317 keeping the nil targets
RECURSIVE MergeDefaultsKeepingNil(_, _)
MergeDefaultsKeepingNil(tgts, cfg) ==
    IF Len(tgts) = 0 THEN <<>>
    ELSE LET target == Head(tgts)
         IN  <<[target EXCEPT
                    !.ProjectID = IF @ = <<>> THEN cfg.ProjectID ELSE @,
                    !.AccessToken = IF @ = <<>> THEN cfg.Token ELSE @,
                    !.FileFormat = IF @ = <<>> THEN cfg.FileFormat ELSE @]>>
             \o MergeDefaultsKeepingNil(Tail(tgts), cfg)

\* lines 303-317: the non-nil targets with the defaults merged in
RECURSIVE MergeDefaults(_, _)
MergeDefaults(tgts, cfg) ==
    IF Len(tgts) = 0 THEN <<>>
    ELSE LET target == Head(tgts)
         IN  IF target.nil THEN MergeDefaults(Tail(tgts), cfg)
             ELSE <<[target EXCEPT
                        !.ProjectID = IF @ = <<>> THEN cfg.ProjectID ELSE @,
                        !.AccessToken = IF @ = <<>> THEN cfg.Token ELSE @,
                        !.FileFormat = IF @ = <<>> THEN cfg.FileFormat ELSE @]>>
                  \o MergeDefaults(Tail(tgts), cfg)

ErrNoTargets == Err(Errorf(<<"no targets for download specified">>))
ErrNoValidTargets ==
    Err(Errorf(<<"no targets could be identified! Refine the targets list in your config">>))

\* TargetsFromConfig(cmd): [targets, err, reported]; reported is the message given to
\* ReportError, when there is one
TargetsFromConfig(cfg) ==
    IF cfg.Targets.empty
    THEN [targets |-> <<>>, err |-> ErrNoTargets,
          reported |-> <<<<"no targets for download specified">>>>]
    ELSE LET u == UnmarshalTargets(cfg.Targets.items)
         IN  IF ~u.err.nil THEN [targets |-> <<>>, err |-> u.err, reported |-> <<>>]
             ELSE LET validTargets == MergeDefaults(u.targets, cfg)
                  IN  IF Len(validTargets) <= 0
                      THEN [targets |-> <<>>, err |-> ErrNoValidTargets,
                            reported |-> <<<<"no targets could be identified! Refine the targets list in your config">>>>]
                      ELSE [targets |-> validTargets, err |-> NoError, reported |-> <<>>]

-----------------------------------------------------------------------------
(* Resolution: Target.LocaleFiles *)

\* GetFormat preferring the file format of the target to the one of its params
GetFormatTargetFirst(t) ==
    IF t.FileFormat # <<>> THEN t.FileFormat
    ELSE IF ~t.Params.nil /\ ~t.Params.FileFormat.nil THEN t.Params.FileFormat.v
    ELSE <<>>

\* Target.GetFormat
GetFormat(t) ==
    IF ~t.Params.nil /\ ~t.Params.FileFormat.nil THEN t.Params.FileFormat.v
    ELSE IF t.FileFormat # <<>> THEN t.FileFormat
    ELSE <<>>

\* Target.GetLocaleID
GetLocaleID(t) == IF ~t.Params.nil THEN t.Params.LocaleID ELSE <<>>

\* Target.GetTag
GetTag(t) == IF ~t.Params.nil /\ ~t.Params.Tag.nil THEN t.Params.Tag.v ELSE <<>>

ErrNilLocale == <<"Remote locale could not be downloaded correctly!">>

ErrNoCode(id) ==
    <<"Locale code is not set for Locale with ID: ">> \o id
        \o <<" but locale_code is used in file name">>

\* IsValidLocale without the test of the code
IsValidLocaleIgnoringCode(locale, localPath) ==
    IF locale.nil
    THEN [err |-> Err(Errorf(ErrNilLocale)), reported |-> <<ErrNilLocale>>]
    ELSE [err |-> NoError, reported |-> <<>>]

\* Target.IsValidLocale(locale, localPath): [err, reported]
IsValidLocale(locale, localPath) ==
    IF locale.nil
    THEN [err |-> Err(Errorf(ErrNilLocale)), reported |-> <<ErrNilLocale>>]
    ELSE IF Contains(localPath, LocaleCodePH) /\ locale.Code = <<>>
    THEN [err |-> Err(Errorf(ErrNoCode(locale.ID))), reported |-> <<ErrNoCode(locale.ID)>>]
    ELSE [err |-> NoError, reported |-> <<>>]

\* Target.ReplacePlaceholders(localeFile): the placeholders of the absolute form of
\* the pattern replaced one after the other
ReplacePlaceholders(target, localeFile) ==
    LET absPath == Abs(target.File)
        p1 == Replace(absPath, LocaleNamePH, localeFile.Name)
        p2 == Replace(p1, LocaleCodePH, localeFile.RFC)
    IN  Replace(p2, TagPH, localeFile.Tag)

\* ReplacePlaceholders keeping the expanded path in the locale file it was given
ReplacePlaceholdersInPlace(target, localeFile) ==
    LET path == ReplacePlaceholders(target, localeFile)
    IN  [path |-> path, err |-> NoError, target |-> target,
         localeFile |-> [localeFile EXCEPT !.Path = path]]

\* the call target.ReplacePlaceholders(localeFile) with what it leaves behind its two
\* pointers: [path, err, target, localeFile]
ReplacePlaceholdersCall(target, localeFile) ==
    [path |-> ReplacePlaceholders(target, localeFile), err |-> NoError,
     target |-> target, localeFile |-> localeFile]

\* the test of lines 201-203 matching the id alone
SkippedIgnoringName(localeID, remoteLocale) ==
    localeID # <<>> /\ ~(remoteLocale.ID = localeID)

\* lines 201-203: whether the loop of LocaleFiles skips the record
Skipped(localeID, remoteLocale) ==
    localeID # <<>> /\ ~(remoteLocale.ID = localeID \/ remoteLocale.Name = localeID)

\* the LocaleFile of a record taking the selector of the target as its id
NewLocaleFileWithSelector(target, remoteLocale) ==
    LET localeFile == [Name |-> remoteLocale.Name,
                       ID |-> IF GetLocaleID(target) # <<>> THEN GetLocaleID(target)
                              ELSE remoteLocale.ID,
                       RFC |-> remoteLocale.Code, Tag |-> GetTag(target),
                       FileFormat |-> GetFormat(target), Path |-> target.File]
    IN  [localeFile EXCEPT !.Path = ReplacePlaceholders(target, localeFile)]

\* lines 209-224: the LocaleFile of a record
NewLocaleFile(target, remoteLocale) ==
    LET localeFile == [Name |-> remoteLocale.Name, ID |-> remoteLocale.ID,
                       RFC |-> remoteLocale.Code, Tag |-> GetTag(target),
                       FileFormat |-> GetFormat(target), Path |-> target.File]
    IN  [localeFile EXCEPT !.Path = ReplacePlaceholdersCall(target, localeFile).path]

\* the loop of LocaleFiles from record k on, files being the slice built so far
RECURSIVE LocaleFilesFrom(_, _, _)
LocaleFilesFrom(target, k, files) ==
    IF k > Len(target.RemoteLocales)
    THEN [files |-> files, err |-> NoError, reported |-> <<>>, panic |-> FALSE]
    ELSE LET remoteLocale == target.RemoteLocales[k]
         IN  IF GetLocaleID(target) # <<>> /\ remoteLocale.nil
             THEN \* line 201 dereferences the nil record
                  [files |-> <<>>, err |-> NoError, reported |-> <<>>, panic |-> TRUE]
             ELSE IF Skipped(GetLocaleID(target), remoteLocale)
             THEN LocaleFilesFrom(target, k + 1, files)
             ELSE LET v == IsValidLocale(remoteLocale, target.File)
                  IN  IF ~v.err.nil
                      THEN [files |-> <<>>, err |-> v.err, reported |-> v.reported,
                            panic |-> FALSE]
                      ELSE LocaleFilesFrom(target, k + 1,
                               Append(files, NewLocaleFile(target, remoteLocale)))

\* the first file of every path
RECURSIVE DedupByPath(_, _)
DedupByPath(files, seen) ==
    IF Len(files) = 0 THEN <<>>
    ELSE IF Head(files).Path \in seen THEN DedupByPath(Tail(files), seen)
    ELSE <<Head(files)>> \o DedupByPath(Tail(files), seen \cup {Head(files).Path})

\* LocaleFiles returning one file per path
LocaleFilesDeduplicated(target) ==
    LET r == LocaleFilesFrom(target, 1, <<>>)
    IN  [r EXCEPT !.files = DedupByPath(r.files, {})]

\* LocaleFiles returning an error when no record passes the filter
LocaleFilesFailingOnEmpty(target) ==
    LET r == LocaleFilesFrom(target, 1, <<>>)
    IN  IF ~r.panic /\ r.err.nil /\ Len(r.files) = 0
        THEN [r EXCEPT !.err = Err(<<"no locale found">>)]
        ELSE r

\* Target.LocaleFiles(): [files, err, reported, panic]; reported are the messages given
\* to ReportError, panic tells that the call did not return
LocaleFiles(target) == LocaleFilesFrom(target, 1, <<>>)

-----------------------------------------------------------------------------
(* The filesystem: createFile and ioutil.WriteFile *)

\* a call made to a collaborator or to the filesystem: op is the call, t and i the
\* target and the file it is made for, a and b its arguments, ok its success
Ev(op, t, i, a, b, ok) == [op |-> op, t |-> t, i |-> i, a |-> a, b |-> b, ok |-> ok]

\* the calls of the trace that are calls of op
Calls(op) == SelectSeq(trace, LAMBDA e : e.op = op)

\* ReportError("Pull Error", msg) for each of the messages
Reports(msgs, t, i) == [k \in 1..Len(msgs) |-> Ev("ReportError", t, i, msgs[k], <<>>, TRUE)]

\* Exists(path) returns nil: the path names a file or a directory
Exists(path, f, d) == Clean(path) \in DOMAIN f \/ Clean(path) \in d

\* a directory and the directories above it
RECURSIVE Ancestors(_)
Ancestors(dir) ==
    IF dir = <<Sep>> \/ dir = <<".">> \/ Dir(dir) = dir THEN {dir}
    ELSE {dir} \cup Ancestors(Dir(dir))

\* the files f with the content of path set to c
WithFile(f, path, c) == (Clean(path) :> c) @@ f

\* os.MkdirAll(absDir, 0700): [dirs, ok]; it cannot succeed below a regular file
MkdirAllOutcomes(absDir, f, d) ==
    {[dirs |-> d, ok |-> FALSE]}
    \cup (IF \E a \in Ancestors(absDir) : a \in DOMAIN f THEN {}
          ELSE {[dirs |-> d \cup Ancestors(absDir), ok |-> TRUE]})

\* os.Create(path): [fs, ok]; it creates or truncates the file, and cannot succeed
\* when the parent is no directory or the path is a directory
CreateOutcomes(path, f, d) ==
    {[fs |-> f, ok |-> FALSE]}
    \cup (IF Dir(path) \in d /\ Clean(path) \notin d
          THEN {[fs |-> WithFile(f, path, <<>>), ok |-> TRUE]} ELSE {})

\* createFile returning nil when os.Create failed
createFileIgnoringError(path, f, d, t, i) ==
    IF Exists(path, f, d)
    THEN {[err |-> NoError, fs |-> f, dirs |-> d, calls |-> <<>>]}
    ELSE LET absDir == Dir(path)
             mk == IF Exists(absDir, f, d)
                   THEN {[dirs |-> d, calls |-> <<>>]}
                   ELSE {[dirs |-> m.dirs,
                          calls |-> <<Ev("mkdir", t, i, absDir, <<>>, m.ok)>>]
                         : m \in MkdirAllOutcomes(absDir, f, d)}
         IN  UNION {
                 {[err |-> NoError,
                   fs |-> c.fs, dirs |-> m.dirs,
                   calls |-> Append(m.calls, Ev("create", t, i, path, <<>>, c.ok))]
                  : c \in CreateOutcomes(path, f, m.dirs)}
                 : m \in mk}

\* createFile creating the file without asking whether it is there
createFileAlways(path, f, d, t, i) ==
    LET absDir == Dir(path)
        mk == IF Exists(absDir, f, d)
              THEN {[dirs |-> d, calls |-> <<>>]}
              ELSE {[dirs |-> m.dirs,
                     calls |-> <<Ev("mkdir", t, i, absDir, <<>>, m.ok)>>]
                    : m \in MkdirAllOutcomes(absDir, f, d)}
    IN  UNION {
            {[err |-> IF c.ok THEN NoError ELSE Err(<<"open ">> \o path),
              fs |-> c.fs, dirs |-> m.dirs,
              calls |-> Append(m.calls, Ev("create", t, i, path, <<>>, c.ok))]
             : c \in CreateOutcomes(path, f, m.dirs)}
            : m \in mk}

\* createFile(path): the outcomes [err, fs, dirs, calls] of the call
createFile(path, f, d, t, i) ==
    IF Exists(path, f, d)
    THEN {[err |-> NoError, fs |-> f, dirs |-> d, calls |-> <<>>]}
    ELSE LET absDir == Dir(path)
             mk == IF Exists(absDir, f, d)
                   THEN {[dirs |-> d, calls |-> <<>>]}
                   ELSE {[dirs |-> m.dirs,
                          calls |-> <<Ev("mkdir", t, i, absDir, <<>>, m.ok)>>]
                         : m \in MkdirAllOutcomes(absDir, f, d)}
         IN  UNION {
                 {[err |-> IF c.ok THEN NoError ELSE Err(<<"open ">> \o path),
                   fs |-> c.fs, dirs |-> m.dirs,
                   calls |-> Append(m.calls, Ev("create", t, i, path, <<>>, c.ok))]
                  : c \in CreateOutcomes(path, f, m.dirs)}
                 : m \in mk}

\* ioutil.WriteFile(path, res, 0700): [fs, ok]; a failed write leaves the file as it
\* was or truncated
WriteFileOutcomes(path, res, f, d) ==
    {[fs |-> f, ok |-> FALSE]}
    \cup (IF Clean(path) \in DOMAIN f
          THEN {[fs |-> WithFile(f, path, <<>>), ok |-> FALSE]} ELSE {})
    \cup (IF Dir(path) \in d /\ Clean(path) \notin d
          THEN {[fs |-> WithFile(f, path, res), ok |-> TRUE]} ELSE {})

-----------------------------------------------------------------------------
(* Target.DownloadAndWriteToFile *)

\* the content the remote service holds for a locale
Content(localeID) == <<"#">> \o localeID

\* lines 163-170: the file format of the download parameters
DownloadFormat(target, localeFile) ==
    IF ~target.Params.nil /\ ~target.Params.FileFormat.nil
    THEN target.Params.FileFormat.v
    ELSE localeFile.FileFormat

\* DownloadAndWriteToFile returning nil when the write failed
DownloadAndWriteToFileIgnoringWrite(target, localeFile, f, d, t, i) ==
    LET format == DownloadFormat(target, localeFile)
        call(ok) == Ev("LocaleDownload", t, i, localeFile.ID, format, ok)
    IN  {[err |-> Err(<<"download failed">>), fs |-> f, calls |-> <<call(FALSE)>>]}
        \cup {[err |-> NoError,
               fs |-> w.fs,
               calls |-> <<call(TRUE),
                           Ev("WriteFile", t, i, localeFile.Path,
                              Content(localeFile.ID), w.ok)>>]
              : w \in WriteFileOutcomes(localeFile.Path, Content(localeFile.ID), f, d)}

\* DownloadAndWriteToFile emptying the destination before it downloads
DownloadAndWriteToFileTruncating(target, localeFile, f, d, t, i) ==
    LET format == DownloadFormat(target, localeFile)
        call(ok) == Ev("LocaleDownload", t, i, localeFile.ID, format, ok)
    IN  {[err |-> Err(<<"download failed">>),
          fs |-> IF Clean(localeFile.Path) \in DOMAIN f
                 THEN WithFile(f, localeFile.Path, <<>>) ELSE f,
          calls |-> <<call(FALSE)>>]}
        \cup {[err |-> IF w.ok THEN NoError ELSE Err(<<"write ">> \o localeFile.Path),
               fs |-> w.fs,
               calls |-> <<call(TRUE),
                           Ev("WriteFile", t, i, localeFile.Path,
                              Content(localeFile.ID), w.ok)>>]
              : w \in WriteFileOutcomes(localeFile.Path, Content(localeFile.ID), f, d)}

\* Target.DownloadAndWriteToFile(client, localeFile): the outcomes [err, fs, calls]
DownloadAndWriteToFile(target, localeFile, f, d, t, i) ==
    LET format == DownloadFormat(target, localeFile)
        call(ok) == Ev("LocaleDownload", t, i, localeFile.ID, format, ok)
    IN  {[err |-> Err(<<"download failed">>), fs |-> f, calls |-> <<call(FALSE)>>]}
        \cup {[err |-> IF w.ok THEN NoError ELSE Err(<<"write ">> \o localeFile.Path),
               fs |-> w.fs,
               calls |-> <<call(TRUE),
                           Ev("WriteFile", t, i, localeFile.Path,
                              Content(localeFile.ID), w.ok)>>]
              : w \in WriteFileOutcomes(localeFile.Path, Content(localeFile.ID), f, d)}

-----------------------------------------------------------------------------
(* PullCommand.Run and Target.Pull, step by step *)

\* Run returns err
Return(err) ==
    /\ pc' = "done"
    /\ runErr' = err

\* the loop of Run goes on with the next target, or Run returns nil
NextTarget ==
    IF ti < Len(targets)
    THEN /\ ti' = ti + 1
         /\ pc' = "check"
         /\ localeFiles' = <<>>
         /\ fi' = 0
         /\ UNCHANGED runErr
    ELSE /\ Return(NoError)
         /\ UNCHANGED <<ti, localeFiles, fi>>

\* the loop of Run going on after a Pull that returned an error
PullReturnsContinuing(err, calls, n) ==
    /\ trace' = trace \o calls \o <<Ev("Pull", ti, n, err.msg, <<>>, err.nil)>>
    /\ NextTarget

\* lines 38-41: Pull of the current target returns err after the calls, having
\* resolved n files
PullReturns(err, calls, n) ==
    /\ trace' = trace \o calls \o <<Ev("Pull", ti, n, err.msg, <<>>, err.nil)>>
    /\ IF err.nil THEN NextTarget
       ELSE Return(err) /\ UNCHANGED <<ti, localeFiles, fi>>

\* lines 20-36: the client is created and the targets are loaded
RunStart ==
    /\ pc = "start"
    /\ \E clientErr \in {NoError, Err(<<"invalid credentials">>)} :
         IF ~clientErr.nil
         THEN /\ Return(clientErr)
              /\ UNCHANGED <<targets, ti, trace>>
         ELSE LET r == TargetsFromConfig(config)
              IN  /\ trace' = trace \o Reports(r.reported, 0, 0)
                  /\ IF ~r.err.nil
                     THEN Return(r.err) /\ UNCHANGED <<targets, ti>>
                     ELSE /\ targets' = r.targets
                          /\ ti' = 1
                          /\ pc' = "check"
                          /\ UNCHANGED runErr
    /\ UNCHANGED <<data, stack, config, remote, localeFiles, fi, fs, dirs>>

\* lines 117-119
PullCheckPreconditions ==
    /\ pc = "check"
    /\ \E validPath \in ValidPathResults :
         LET err == CheckPreconditions(targets[ti], validPath)
             call == Ev("CheckPreconditions", ti, 0, targets[ti].File, validPath.msg, err.nil)
         IN  IF ~err.nil
             THEN PullReturns(err, <<call>>, 0)
             ELSE /\ trace' = Append(trace, call)
                  /\ pc' = "fetch"
                  /\ UNCHANGED <<runErr, ti, localeFiles, fi>>
    /\ UNCHANGED <<data, stack, config, remote, targets, fs, dirs>>

\* lines 121-125 taking the catalog of the target before, when there is one, instead
\* of calling RemoteLocales
PullRemoteLocalesCached ==
    /\ pc = "fetch"
    /\ LET pid == targets[ti].ProjectID
           call(ok) == Ev("RemoteLocales", ti, 0, pid, <<>>, ok)
       IN  IF ti > 1
           THEN /\ trace' = trace
                /\ targets' = [targets EXCEPT ![ti].RemoteLocales = targets[ti - 1].RemoteLocales]
                /\ pc' = "resolve"
                /\ UNCHANGED <<runErr, ti, localeFiles, fi>>
           ELSE \/ /\ pid \in DOMAIN remote
                   /\ trace' = Append(trace, call(TRUE))
                   /\ targets' = [targets EXCEPT ![ti].RemoteLocales = remote[pid]]
                   /\ pc' = "resolve"
                   /\ UNCHANGED <<runErr, ti, localeFiles, fi>>
                \/ /\ PullReturns(Err(<<"locales could not be listed">>), <<call(FALSE)>>, 0)
                   /\ UNCHANGED targets
    /\ UNCHANGED <<data, stack, config, remote, fs, dirs>>

\* lines 121-125: RemoteLocales(client, target.ProjectID) fails or returns the catalog
PullRemoteLocales ==
    /\ pc = "fetch"
    /\ LET pid == targets[ti].ProjectID
           call(ok) == Ev("RemoteLocales", ti, 0, pid, <<>>, ok)
       IN  \/ /\ pid \in DOMAIN remote
              /\ trace' = Append(trace, call(TRUE))
              /\ targets' = [targets EXCEPT ![ti].RemoteLocales = remote[pid]]
              /\ pc' = "resolve"
              /\ UNCHANGED <<runErr, ti, localeFiles, fi>>
           \/ /\ PullReturns(Err(<<"locales could not be listed">>), <<call(FALSE)>>, 0)
              /\ UNCHANGED targets
    /\ UNCHANGED <<data, stack, config, remote, fs, dirs>>

\* lines 127-134: the files are resolved and the loop is entered
PullLocaleFiles ==
    /\ pc = "resolve"
    /\ LET r == LocaleFiles(targets[ti])
           calls == Reports(r.reported, ti, 0)
                    \o (IF r.panic THEN <<>>
                        ELSE <<Ev("LocaleFiles", ti, Len(r.files), <<>>, <<>>, r.err.nil)>>)
       IN  IF r.panic
           THEN /\ pc' = "panic"
                /\ trace' = trace \o calls
                /\ UNCHANGED <<runErr, ti, localeFiles, fi>>
           ELSE IF ~r.err.nil \/ Len(r.files) = 0
           THEN PullReturns(r.err, calls, 0)
           ELSE /\ trace' = trace \o calls
                /\ localeFiles' = r.files
                /\ fi' = 1
                /\ pc' = "create"
                /\ UNCHANGED <<runErr, ti>>
    /\ UNCHANGED <<data, stack, config, remote, targets, fs, dirs>>

\* line 132 without the count of the files
LocaleIdToFileIsDistinctAnyCount(target, files) == GetLocaleID(target) # <<>>

\* line 132
LocaleIdToFileIsDistinct(target, files) ==
    GetLocaleID(target) # <<>> /\ Len(files) = 1

\* lines 140-144 leaving the id of the record
OverriddenNever(target, files, localeFile) == localeFile

\* lines 140-144: the locale file the download is made for
Overridden(target, files, localeFile) ==
    IF LocaleIdToFileIsDistinct(target, files) /\ GetLocaleID(target) # <<>>
    THEN [localeFile EXCEPT !.ID = GetLocaleID(target)]
    ELSE localeFile

\* lines 135-144 reporting the error of createFile with the path, as lines 147-150 do
\* for the transfer
PullCreateFileReporting ==
    /\ pc = "create"
    /\ \E o \in createFile(localeFiles[fi].Path, fs, dirs, ti, fi) :
         /\ fs' = o.fs
         /\ dirs' = o.dirs
         /\ IF ~o.err.nil
            THEN PullReturns(Err(Errorf(o.err.msg \o <<" for ">> \o localeFiles[fi].Path)),
                             o.calls \o Reports(<<o.err.msg \o <<" for ">> \o localeFiles[fi].Path>>,
                                                ti, fi),
                             Len(localeFiles))
            ELSE /\ trace' = trace \o o.calls
                 /\ localeFiles' = [localeFiles EXCEPT
                                      ![fi] = Overridden(targets[ti], localeFiles, @)]
                 /\ pc' = "transfer"
                 /\ UNCHANGED <<runErr, ti, fi>>
    /\ UNCHANGED <<data, stack, config, remote, targets>>

\* lines 135-144: the destination is created and the locale id of the download is set
PullCreateFile ==
    /\ pc = "create"
    /\ \E o \in createFile(localeFiles[fi].Path, fs, dirs, ti, fi) :
         /\ fs' = o.fs
         /\ dirs' = o.dirs
         /\ IF ~o.err.nil
            THEN PullReturns(o.err, o.calls, Len(localeFiles))
            ELSE /\ trace' = trace \o o.calls
                 /\ localeFiles' = [localeFiles EXCEPT
                                      ![fi] = Overridden(targets[ti], localeFiles, @)]
                 /\ pc' = "transfer"
                 /\ UNCHANGED <<runErr, ti, fi>>
    /\ UNCHANGED <<data, stack, config, remote, targets>>

\* line 148
PullErrmsg(err, localeFile) == err.msg \o <<" for ">> \o localeFile.Path

\* lines 146-157: the file is downloaded and written, the outcome is reported, and
\* the loop goes on or Pull returns
PullTransfer ==
    /\ pc = "transfer"
    /\ LET localeFile == localeFiles[fi]
       IN  \E o \in DownloadAndWriteToFile(targets[ti], localeFile, fs, dirs, ti, fi) :
             /\ fs' = o.fs
             /\ IF ~o.err.nil
                THEN PullReturns(Err(Errorf(PullErrmsg(o.err, localeFile))),
                                 o.calls \o Reports(<<PullErrmsg(o.err, localeFile)>>, ti, fi),
                                 Len(localeFiles))
                ELSE LET calls == o.calls \o <<Ev("sharedMessage", ti, fi, localeFile.Path,
                                                 localeFile.ID, TRUE)>>
                     IN  IF fi < Len(localeFiles)
                         THEN /\ trace' = trace \o calls
                              /\ fi' = fi + 1
                              /\ pc' = "create"
                              /\ UNCHANGED <<runErr, ti, localeFiles>>
                         ELSE PullReturns(NoError, calls, Len(localeFiles))
    /\ UNCHANGED <<data, stack, config, remote, targets, dirs>>

\* Target.CheckPreconditions called on a target by itself
CallCheckPreconditions ==
    /\ pc = "precondition"
    /\ \E validPath \in ValidPathResults :
         LET err == CheckPreconditions(targets[1], validPath)
         IN  /\ runErr' = err
             /\ trace' = <<Ev("CheckPreconditions", 1, 0, targets[1].File, validPath.msg,
                              err.nil)>>
    /\ pc' = "done"
    /\ UNCHANGED <<data, stack, config, remote, targets, ti, localeFiles, fi, fs, dirs>>

\* Target.ReplacePlaceholders called twice in a row on the same target and locale file
CallReplacePlaceholders ==
    /\ pc \in {"expand", "expandAgain"}
    /\ LET r == ReplacePlaceholdersCall(targets[1], localeFiles[1])
       IN  /\ targets' = <<r.target>>
           /\ localeFiles' = <<r.localeFile>>
           /\ runErr' = r.err
           /\ trace' = Append(trace, Ev("ReplacePlaceholders", 1, fi + 1, r.path, <<>>,
                                        r.err.nil))
    /\ fi' = fi + 1
    /\ pc' = IF pc = "expand" THEN "expandAgain" ELSE "done"
    /\ UNCHANGED <<data, stack, config, remote, ti, fs, dirs>>

\* TargetsFromConfig called on a configuration by itself
CallTargetsFromConfig ==
    /\ pc = "load"
    /\ LET r == TargetsFromConfig(config)
       IN  /\ targets' = r.targets
           /\ runErr' = r.err
           /\ trace' = Reports(r.reported, 0, 0)
    /\ pc' = "done"
    /\ UNCHANGED <<data, stack, config, remote, ti, localeFiles, fi, fs, dirs>>

\* the keys a params map of the configuration may hold, in the order the calls are
\* written down in
KeyOrder == <<"file_format", "locale_id", "tag", "unknown">>

\* the keys of the map, and the values with their types, as they are written down for
\* a call
MapKeys(m) == SelectSeq(KeyOrder, LAMBDA k : k \in DOMAIN m)

RECURSIVE ValuesOf(_, _)
ValuesOf(m, keys) ==
    IF Len(keys) = 0 THEN <<>>
    ELSE <<m[Head(keys)].type>> \o m[Head(keys)].str \o <<";">> \o ValuesOf(m, Tail(keys))

\* Target.UnmarshalYAML called on one entry of the targets list by itself
CallUnmarshalYAML ==
    /\ pc = "unmarshal"
    /\ LET r == UnmarshalYAML(config.Targets.items[1])
       IN  /\ targets' = <<r.target>>
           /\ runErr' = r.err
           /\ trace' = IF r.applied.called
                       THEN <<Ev("ApplyValuesFromMap", 1, 0, MapKeys(r.applied.m),
                                 ValuesOf(r.applied.m, MapKeys(r.applied.m)), r.err.nil)>>
                       ELSE <<>>
    /\ pc' = "done"
    /\ UNCHANGED <<data, stack, config, remote, ti, localeFiles, fi, fs, dirs>>

-----------------------------------------------------------------------------
(* The setup wizard: DisplayWizard and its steps *)

\* the length of an access token
TokenLen == 64

\* the number of calls of DisplayWizard a run of the wizard is followed for, and the
\* number of them that display an error
MaxCalls == 9
MaxErrors == 1

\* a WizardData with nothing set
NoData == [AccessToken |-> <<>>, ProjectId |-> <<>>, Format |-> <<>>, Step |-> ""]

UpperCase == <<"A","B","C","D","E","F","G","H","I","J","K","L","M",
               "N","O","P","Q","R","S","T","U","V","W","X","Y","Z">>
LowerCase == <<"a","b","c","d","e","f","g","h","i","j","k","l","m",
               "n","o","p","q","r","s","t","u","v","w","x","y","z">>

\* strings.ToLower
ToLower(s) ==
    [i \in 1..Len(s) |->
        IF \E k \in 1..26 : UpperCase[k] = s[i]
        THEN LowerCase[CHOOSE k \in 1..26 : UpperCase[k] = s[i]]
        ELSE s[i]]

HexDigits == {"0","1","2","3","4","5","6","7","8","9","a","b","c","d","e","f"}

\* the match of the token without the count of its characters
MatchTokenAnyLength(token) == \A i \in 1..Len(token) : token[i] \in HexDigits

\* regexp.MatchString("^[0-9a-f]{64}$", token)
MatchToken(token) ==
    Len(token) = TokenLen /\ \A i \in 1..Len(token) : token[i] \in HexDigits

Digits == <<"0","1","2","3","4","5","6","7","8","9">>

\* the value of a sequence of decimal digits
RECURSIVE DigitsValue(_)
DigitsValue(s) ==
    IF Len(s) = 0 THEN 0
    ELSE 10 * DigitsValue(SubSeq(s, 1, Len(s) - 1))
         + (CHOOSE d \in 0..9 : Digits[d + 1] = s[Len(s)])

\* strconv.Atoi(id): [err, number]
Atoi(id) ==
    LET neg == Len(id) > 0 /\ id[1] = "-"
        ds == IF Len(id) > 0 /\ id[1] \in {"-", "+"} THEN Tail(id) ELSE id
    IN  IF Len(ds) = 0 \/ \E i \in 1..Len(ds) : \A d \in 1..10 : Digits[d] # ds[i]
        THEN [err |-> TRUE, number |-> 0]
        ELSE [err |-> FALSE, number |-> IF neg THEN 0 - DigitsValue(ds) ELSE DigitsValue(ds)]

\* next(data) going from the project to the end
nextSkippingFormat(d) ==
    IF d.Step \in {"", "token"} THEN "selectProject"
    ELSE IF d.Step \in {"selectProject", "newProject"} THEN "finish"
    ELSE IF d.Step = "selectFormat" THEN "finish"
    ELSE ""

\* next(data): the step after the one data is at
next(d) ==
    IF d.Step \in {"", "token"} THEN "selectProject"
    ELSE IF d.Step \in {"selectProject", "newProject"} THEN "selectFormat"
    ELSE IF d.Step = "selectFormat" THEN "finish"
    ELSE ""

\* the function DisplayWizard(data, step, errorMsg) runs, "" when it runs none
StepFunction(d, step) ==
    IF step = "" \/ d.AccessToken = <<>> THEN "tokenStep"
    ELSE IF step = "newProject" THEN "newProjectStep"
    ELSE IF step = "selectProject" THEN "selectProjectStep"
    ELSE IF step = "selectFormat" THEN "selectFormat"
    ELSE IF step = "finish" THEN "writeConfig"
    ELSE ""

\* the Step DisplayWizard(data, step, errorMsg) leaves in data
StepSet(d, step) ==
    IF step = "" \/ d.AccessToken = <<>> THEN "token"
    ELSE IF step \in {"newProject", "selectProject", "selectFormat"} THEN step
    ELSE d.Step

\* the calls of DisplayWizard made so far; the n-th call has the number n
NumCalls == Len(Calls("DisplayWizard"))

\* the calls of DisplayWizard made so far with an error to display
NumErrors == Len(SelectSeq(trace, LAMBDA e : e.op = "DisplayWizard" /\ e.b # <<>>))

\* the call of the step on top of the stack
Top == stack[Len(stack)]

\* a call of a step: the function, the place it is at, and the number of the call of
\* DisplayWizard that made it
Frame(fn, at, id) == [fn |-> fn, at |-> at, id |-> id]

\* DisplayWizard(d, step, errorMsg) called by the step on top of the stack, after the
\* calls the step made before it; the step is then at the place at
DisplayWizard(d, step, errorMsg, calls, at) ==
    /\ NumCalls < MaxCalls
    /\ errorMsg # <<>> => NumErrors < MaxErrors
    /\ data' = [d EXCEPT !.Step = StepSet(d, step)]
    /\ trace' = trace \o calls
                  \o <<Ev("DisplayWizard", Top.id, NumCalls + 1, <<step>>, errorMsg, TRUE)>>
    /\ stack' = [stack EXCEPT ![Len(stack)].at = at]
                  \o (IF StepFunction(d, step) = "" THEN <<>>
                      ELSE <<Frame(StepFunction(d, step), "start", NumCalls + 1)>>)
    /\ UNCHANGED pc

\* the step on top of the stack panics after the calls
Panics(d, calls) ==
    /\ pc' = "panic"
    /\ data' = d
    /\ trace' = trace \o calls
    /\ UNCHANGED stack

\* fmt.Scanln into a variable of the step on top of the stack
Prompt(input) == Ev("Scanln", Top.id, 0, <<Top.fn>>, input, TRUE)

ErrToken ==
    <<"Argument Error: AccessToken must be 64 letters long and can only contain a-f, 0-9">>
ErrFormat ==
    <<"Argument Error: Please select a format from the list by specifying its position in the list.">>
ErrProject ==
    <<"Argument Error: Please select a project from the list by specifying its position in the list, e.g. 2 for the second project.">>
ErrInvalid(token) ==
    <<"Argument Error: AccessToken '">> \o token
        \o <<"' is invalid. It may be revoked. Please create a new Access Token.">>
ErrNoWrite(token) ==
    <<"Argument Error: Your AccessToken '">> \o token
        \o <<"' has no write scope. Please create a new Access Token with read and write scope.">>
ErrValidation == <<"Validation failed">>

\* the tokens typed in at the token step: one that is valid, the same in upper case,
\* one too short, one too long, one with another letter, and an empty line
TokenInputs ==
    LET valid == [i \in 1..TokenLen |-> IF i % 2 = 0 THEN "a" ELSE "0"]
    IN  { valid,
          [i \in 1..TokenLen |-> IF i % 2 = 0 THEN "A" ELSE "0"],
          SubSeq(valid, 1, TokenLen - 1),
          Append(valid, "f"),
          [valid EXCEPT ![1] = "g"],
          <<>> }

\* the lines typed in where a number is asked for
NumberInputs == {<<"x">>, <<"0">>, <<"1">>, <<"2">>, <<"3">>, <<"4">>}

\* lines 158-172
tokenStep ==
    /\ pc = "wizard"
    /\ Len(stack) > 0 /\ Top.fn = "tokenStep" /\ Top.at = "start"
    /\ \E input \in TokenInputs :
         LET token == ToLower(IF input = <<>> THEN data.AccessToken ELSE input)
             d == [data EXCEPT !.AccessToken = token]
         IN  IF MatchToken(token)
             THEN DisplayWizard(d, next(d), <<>>, <<Prompt(input)>>, "return")
             ELSE DisplayWizard([d EXCEPT !.AccessToken = <<>>], "", ErrToken,
                                <<Prompt(input)>>, "return")
    /\ UNCHANGED <<config, remote, targets, ti, localeFiles, fi, runErr, fs, dirs>>

\* the formats phraseapp.FormatsList returns, by their ApiName
Formats == <<S_fmt, S_json>>

\* lines 94-116
selectFormat ==
    /\ pc = "wizard"
    /\ Len(stack) > 0 /\ Top.fn = "selectFormat" /\ Top.at = "start"
    /\ \E formats \in {<<>>, Formats}, failed \in BOOLEAN, id \in NumberInputs :
         LET n == Atoi(id)
             index(k) == Ev("index", Top.id, k, IF k < Len(formats) THEN formats[k + 1] ELSE <<>>,
                            <<>>, k < Len(formats))
         IN  IF failed
             THEN \* line 99
                  formats = <<>> /\ id = <<"x">> /\ Panics(data, <<>>)
             ELSE IF Len(formats) = 0
             THEN \* formats[0] at line 107
                  id = <<"x">> /\ Panics(data, <<index(0)>>)
             ELSE IF n.err \/ n.number < 1 \/ n.number > Len(formats) + 1
             THEN DisplayWizard(data, "selectFormat", ErrFormat, <<index(0), Prompt(id)>>,
                                "return")
             ELSE IF n.number - 1 >= Len(formats)
             THEN \* formats[number-1] at line 114 is out of range
                  Panics(data, <<index(0), Prompt(id), index(n.number - 1)>>)
             ELSE LET d == [data EXCEPT !.Format = formats[n.number]]
                  IN  DisplayWizard(d, next(d), <<>>,
                                    <<index(0), Prompt(id), index(n.number - 1)>>,
                                    "return")
    /\ UNCHANGED <<config, remote, targets, ti, localeFiles, fi, runErr, fs, dirs>>

\* lines 118-142
writeConfig ==
    /\ pc = "wizard"
    /\ Len(stack) > 0 /\ Top.fn = "writeConfig" /\ Top.at = "start"
    /\ \E initialPush \in {<<"y">>, <<>>} :
         trace' = trace \o <<Ev("writeConfig", Top.id, 0, data.AccessToken,
                               data.ProjectId \o <<";">> \o data.Format, TRUE),
                            Prompt(initialPush)>>
    /\ stack' = [stack EXCEPT ![Len(stack)].at = "return"]
    /\ UNCHANGED <<data, pc>>
    /\ UNCHANGED <<config, remote, targets, ti, localeFiles, fi, runErr, fs, dirs>>

\* the outcomes of phraseapp.ProjectCreate: the id of the new project, or an error
S_pn == <<"p","n">>

ProjectCreateOutcomes ==
    {[err |-> <<>>, id |-> S_pn], [err |-> <<"401">>, id |-> <<>>],
     [err |-> ErrValidation, id |-> <<>>], [err |-> <<"500">>, id |-> <<>>]}

\* lines 174-207
newProjectStep ==
    /\ pc = "wizard"
    /\ Len(stack) > 0 /\ Top.fn = "newProjectStep" /\ Top.at = "start"
    /\ \E res \in ProjectCreateOutcomes :
         LET calls == <<Prompt(<<"n">>)>>
         IN  IF res.err = <<>>
             THEN LET d == [data EXCEPT !.ProjectId = res.id]
                  IN  DisplayWizard(d, next(d), <<>>, calls, "return")
             ELSE IF Contains(res.err, <<"401">>)
             THEN \* the token is emptied before the message is made of it
                  LET d == [data EXCEPT !.AccessToken = <<>>]
                  IN  DisplayWizard(d, "", ErrNoWrite(d.AccessToken), calls, "return")
             ELSE IF Contains(res.err, ErrValidation)
             THEN DisplayWizard(data, "newProject", res.err, calls, "return")
             ELSE Panics(data, calls)
    /\ UNCHANGED <<config, remote, targets, ti, localeFiles, fi, runErr, fs, dirs>>

\* lines 229-263: the project is chosen among the projects listed
selectProjectStepChoose(projects, calls) ==
    IF Len(projects) = 1
    THEN \E answer \in {<<"y">>, <<"n">>} :
           LET d == [data EXCEPT !.ProjectId = projects[1]]
           IN  IF answer = <<"y">>
               THEN DisplayWizard(d, next(d), <<>>, calls \o <<Prompt(answer)>>, "return")
               ELSE DisplayWizard([d EXCEPT !.ProjectId = <<>>], "newProject", <<>>,
                                  calls \o <<Prompt(answer)>>, "return")
    ELSE \E id \in NumberInputs :
           LET n == Atoi(id)
           IN  IF n.err \/ n.number < 1 \/ n.number > Len(projects) + 1
               THEN DisplayWizard(data, "selectProject", ErrProject,
                                  calls \o <<Prompt(id)>>, "return")
               ELSE IF n.number = Len(projects) + 1
               THEN DisplayWizard(data, "newProject", <<>>, calls \o <<Prompt(id)>>,
                                  "return")
               ELSE LET d == [data EXCEPT !.ProjectId = projects[n.number]]
                    IN  DisplayWizard(d, next(d), <<>>, calls \o <<Prompt(id)>>, "return")

\* the outcomes of phraseapp.ProjectsList: the ids of the projects, or an error
ProjectsListOutcomes ==
    {[err |-> <<>>, projects |-> ps] : ps \in {<<S_p1>>, <<S_p1, S_p2>>}}
    \cup {[err |-> e, projects |-> <<>>] : e \in {<<"401">>, <<"500">>}}

\* lines 209-227, and lines 229-263 when ProjectsList returned the projects
selectProjectStep ==
    /\ pc = "wizard"
    /\ Len(stack) > 0 /\ Top.fn = "selectProjectStep" /\ Top.at = "start"
    /\ \E res \in ProjectsListOutcomes :
         IF res.err = <<>>
         THEN selectProjectStepChoose(res.projects, <<>>)
         ELSE IF Contains(res.err, <<"401">>)
         THEN DisplayWizard([data EXCEPT !.AccessToken = <<>>], "",
                            ErrInvalid(data.AccessToken), <<>>, "line 227")
         ELSE Panics(data, <<>>)
    /\ UNCHANGED <<config, remote, targets, ti, localeFiles, fi, runErr, fs, dirs>>

\* lines 229-263 after the call of line 223 has returned: projects is nil
selectProjectStepResumes ==
    /\ pc = "wizard"
    /\ Len(stack) > 0 /\ Top.fn = "selectProjectStep" /\ Top.at = "line 227"
    /\ selectProjectStepChoose(<<>>, <<>>)
    /\ UNCHANGED <<config, remote, targets, ti, localeFiles, fi, runErr, fs, dirs>>

\* the step on top of the stack returns to the step that called DisplayWizard
StepReturns ==
    /\ pc = "wizard"
    /\ Len(stack) > 0 /\ Top.at = "return"
    /\ stack' = SubSeq(stack, 1, Len(stack) - 1)
    /\ pc' = IF Len(stack) = 1 THEN "done" ELSE pc
    /\ UNCHANGED <<data, trace>>
    /\ UNCHANGED <<config, remote, targets, ti, localeFiles, fi, runErr, fs, dirs>>

-----------------------------------------------------------------------------
(* The configurations and remote catalogs the model is run on *)

\* the sequences of at most n elements of S
RECURSIVE SeqsUpTo(_, _)
SeqsUpTo(S, n) ==
    IF n = 0 THEN {<<>>}
    ELSE LET shorter == SeqsUpTo(S, n - 1)
         IN  shorter \cup {Append(q, x) : q \in shorter, x \in S}

\* an entry of the targets list of the configuration file
RawTarget(file, projectID, fileFormat, params) ==
    [null |-> FALSE, file |-> file, project_id |-> projectID, access_token |-> <<>>,
     file_format |-> fileFormat, params |-> params]

NullEntry == [RawTarget(<<>>, <<>>, <<>>, <<>>) EXCEPT !.null = TRUE]

\* the params of a target with the locale_id and the tag that are not empty
ParamsOf(localeID, tag) ==
    [k \in (IF localeID = <<>> THEN {} ELSE {"locale_id"})
            \cup (IF tag = <<>> THEN {} ELSE {"tag"})
        |-> IF k = "locale_id" THEN YStr(localeID) ELSE YStr(tag)]

L1 == Locale(S_l1, S_English, S_en)
L2 == Locale(S_l2, S_German, S_de)
\* a record without code, named like L2
L3 == Locale(S_l3, S_German, <<>>)
\* a record named like the id of L1, with the code of L1
L4 == Locale(S_l4, S_l1, S_en)

LocalePool == {L1, L2, L3, L4, NilLocale}

Catalogs == SeqsUpTo(LocalePool, MaxLocales)

PullPatterns ==
    { S_locales \o LocaleCodePH \o S_yml,
      S_locales \o LocaleNamePH \o S_yml,
      TagPH \o <<Sep>> \o LocaleNamePH,
      S_locales \o <<"*", Sep>> \o LocaleCodePH \o S_yml,
      S_locales \o LocaleCodePH \o LocaleCodePH,
      <<Sep, "x">>,
      <<Sep, "%">> \o LocaleCodePH }

Selectors == {<<>>, S_l1, S_l2, S_German, S_xx}

\* the targets a single pull is resolved for
PullTargets ==
    {RawTarget(p, <<>>, <<>>, ParamsOf(sel, <<>>)) : p \in PullPatterns, sel \in Selectors}
    \cup {RawTarget(p, <<>>, <<>>, ParamsOf(sel, S_v1))
          : p \in {q \in PullPatterns : Contains(q, TagPH)}, sel \in Selectors}

\* the entries the configurations of several targets are made of
RunTargets ==
    { RawTarget(S_locales \o LocaleCodePH \o S_yml, <<>>, <<>>, <<>>),
      RawTarget(LocaleNamePH \o S_yml, S_p2, S_json, ParamsOf(S_German, <<>>)),
      RawTarget(S_locales \o <<"*">> \o S_yml, <<>>, <<>>, <<>>),
      RawTarget(<<Sep, "x">>, <<>>, <<>>, [k \in {"locale_id"} |-> YInt(<<"5">>)]),
      RawTarget(TagPH \o <<Sep>> \o LocaleCodePH, <<>>, S_json,
                [k \in {"tag", "file_format"} |-> IF k = "tag" THEN YStr(S_v1) ELSE YStr(S_xml)]),
      NullEntry }

Config(empty, items) ==
    [Targets |-> [empty |-> empty, items |-> items],
     ProjectID |-> S_p1, Token |-> S_tok, FileFormat |-> S_fmt]

\* a configuration with the state of the remote service
Scenarios ==
    {[config |-> Config(FALSE, <<t>>), remote |-> (S_p1 :> c)]
        : t \in PullTargets, c \in Catalogs}
    \cup {[config |-> Config(FALSE, items), remote |-> (S_p1 :> <<L1, L2>>) @@ (S_p2 :> <<L2, L3>>)]
        : items \in SeqsUpTo(RunTargets, MaxTargets)}
    \cup {[config |-> Config(TRUE, <<>>), remote |-> (S_p1 :> <<L1, L2>>)]}

\* the filesystems a run starts on: the working directory alone, or one destination
\* already there
Filesystems ==
    { [fs |-> <<>>, dirs |-> {<<Sep>>, Cwd}],
      [fs |-> (S_locales \o S_en \o S_yml) :> S_old,
       dirs |-> {<<Sep>>, Cwd, Clean(S_locales)}] }

Init ==
    /\ \E sc \in Scenarios : config = sc.config /\ remote = sc.remote
    /\ \E f \in Filesystems : fs = f.fs /\ dirs = f.dirs
    /\ targets = <<>>
    /\ ti = 0
    /\ localeFiles = <<>>
    /\ fi = 0
    /\ pc = "start"
    /\ runErr = NoError
    /\ trace = <<>>
    /\ data = NoData
    /\ stack = <<>>

\* the fragments the patterns of the precondition check are made of
Fragments == {<<Sep>>, <<"*">>, LocaleNamePH, LocaleCodePH, TagPH, <<"<">>, <<"t","a","g",">">>}

RECURSIVE Flatten(_)
Flatten(seqs) == IF Len(seqs) = 0 THEN <<>> ELSE Head(seqs) \o Flatten(Tail(seqs))

PreconditionPatterns == {Flatten(q) : q \in SeqsUpTo(Fragments, MaxFrags)}

InitPre ==
    /\ config = Config(TRUE, <<>>)
    /\ remote = <<>>
    /\ \E p \in PreconditionPatterns :
         targets = <<UnmarshalYAML(RawTarget(p, S_p1, S_fmt, <<>>)).target>>
    /\ fs = <<>>
    /\ dirs = {}
    /\ ti = 1
    /\ localeFiles = <<>>
    /\ fi = 0
    /\ pc = "precondition"
    /\ runErr = NoError
    /\ trace = <<>>
    /\ data = NoData
    /\ stack = <<>>

\* the patterns, names, codes and tags path expansion is called on
ExpandPatterns ==
    { LocaleNamePH,
      <<Sep, "a", Sep>> \o LocaleNamePH \o <<Sep>> \o LocaleCodePH,
      LocaleCodePH \o <<".">> \o TagPH,
      TagPH \o <<Sep>> \o LocaleNamePH \o LocaleNamePH,
      LocaleNamePH \o <<"t","a","g",">">>,
      <<"a", Sep, ".", ".", Sep, "x">>,
      <<Sep, "x">> }

ExpandNames == {S_German, TagPH, LocaleCodePH, <<"a", Sep, "b">>, <<"<">>, <<>>}

ExpandCodes == {S_de, TagPH, <<"d", Sep, "e">>, <<>>}

ExpandTags == {S_v1, LocaleNamePH, <<>>}

InitExpand ==
    /\ \E p \in ExpandPatterns, name \in ExpandNames, code \in ExpandCodes,
          tag \in ExpandTags :
         LET target == UnmarshalYAML(RawTarget(p, S_p1, S_fmt, ParamsOf(<<>>, tag))).target
             localeFile == [Name |-> name, ID |-> S_l1, RFC |-> code,
                            Tag |-> GetTag(target), FileFormat |-> GetFormat(target),
                            Path |-> target.File]
         IN  /\ config = [target |-> target, localeFile |-> localeFile]
             /\ targets = <<target>>
             /\ localeFiles = <<localeFile>>
    /\ remote = <<>>
    /\ fs = <<>>
    /\ dirs = {}
    /\ ti = 1
    /\ fi = 0
    /\ pc = "expand"
    /\ runErr = NoError
    /\ trace = <<>>
    /\ data = NoData
    /\ stack = <<>>

S_t2 == <<"t","2">>

\* the entries the configurations TargetsFromConfig is called on are made of: targets
\* with and without a project, a token and a file format of their own, a null entry
\* and an entry that does not load
ConfigTargets ==
    {[RawTarget(<<Sep, "x">>, pid, fmt, <<>>) EXCEPT !.access_token = tok]
        : pid \in {<<>>, S_p2}, tok \in {<<>>, S_t2}, fmt \in {<<>>, S_json}}
    \cup { RawTarget(S_locales \o LocaleCodePH, <<>>, <<>>, ParamsOf(S_l1, S_v1)),
           RawTarget(<<Sep, "x">>, <<>>, <<>>, [k \in {"locale_id"} |-> YInt(<<"5">>)]),
           NullEntry }

InitConfig ==
    /\ \E items \in SeqsUpTo(ConfigTargets, MaxTargets), empty \in BOOLEAN,
          pid \in {<<>>, S_p1}, tok \in {<<>>, S_tok}, fmt \in {<<>>, S_fmt} :
         /\ empty => items = <<>>
         /\ config = [Config(empty, items) EXCEPT !.ProjectID = pid, !.Token = tok,
                                                  !.FileFormat = fmt]
    /\ remote = <<>>
    /\ targets = <<>>
    /\ fs = <<>>
    /\ dirs = {}
    /\ ti = 0
    /\ localeFiles = <<>>
    /\ fi = 0
    /\ pc = "load"
    /\ runErr = NoError
    /\ trace = <<>>
    /\ data = NoData
    /\ stack = <<>>

\* the values the keys of the params maps Target.UnmarshalYAML is called on may have
LoadValues(k) ==
    IF k = "locale_id" THEN {YStr(S_l2), YStr(<<>>), YInt(<<"5">>)}
    ELSE IF k = "tag" THEN {YStr(S_v1), YInt(<<"1">>)}
    ELSE IF k = "file_format" THEN {YStr(S_json)}
    ELSE {YStr(S_xx)}

LoadParams ==
    UNION {[keys -> UNION {LoadValues(k) : k \in keys}] : keys \in SUBSET {"file_format", "locale_id", "tag", "unknown"}}

InitLoad ==
    /\ \E m \in LoadParams, file \in {<<Sep, "x">>, S_locales \o LocaleCodePH},
          pid \in {<<>>, S_p2} :
         /\ \A k \in DOMAIN m : m[k] \in LoadValues(k)
         /\ config = Config(FALSE, <<RawTarget(file, pid, <<>>, m)>>)
    /\ remote = <<>>
    /\ targets = <<>>
    /\ fs = <<>>
    /\ dirs = {}
    /\ ti = 0
    /\ localeFiles = <<>>
    /\ fi = 0
    /\ pc = "unmarshal"
    /\ runErr = NoError
    /\ trace = <<>>
    /\ data = NoData
    /\ stack = <<>>

\* the wizard is started on an empty WizardData, whatever the step asked for
WizardSteps == {"", "selectProject", "finish"}

InitWizard ==
    /\ \E step \in WizardSteps :
         /\ data = [NoData EXCEPT !.Step = StepSet(NoData, step)]
         /\ stack = <<Frame(StepFunction(NoData, step), "start", 1)>>
         /\ trace = <<Ev("DisplayWizard", 0, 1, <<step>>, <<>>, TRUE)>>
    /\ config = Config(TRUE, <<>>)
    /\ remote = <<>>
    /\ targets = <<>>
    /\ fs = <<>>
    /\ dirs = {}
    /\ ti = 0
    /\ localeFiles = <<>>
    /\ fi = 0
    /\ pc = "wizard"
    /\ runErr = NoError

Next ==
    \/ RunStart
    \/ PullCheckPreconditions
    \/ PullRemoteLocales
    \/ PullLocaleFiles
    \/ PullCreateFile
    \/ PullTransfer

NextPre == CallCheckPreconditions

Spec == Init /\ [][Next]_vars

SpecPre == InitPre /\ [][NextPre]_vars

NextConfig == CallTargetsFromConfig

SpecConfig == InitConfig /\ [][NextConfig]_vars

NextLoad == CallUnmarshalYAML

SpecLoad == InitLoad /\ [][NextLoad]_vars

NextWizard ==
    \/ tokenStep
    \/ selectProjectStep
    \/ selectProjectStepResumes
    \/ newProjectStep
    \/ selectFormat
    \/ writeConfig
    \/ StepReturns

SpecWizard == InitWizard /\ [][NextWizard]_vars

NextExpand == CallReplacePlaceholders

SpecExpand == InitExpand /\ [][NextExpand]_vars

-----------------------------------------------------------------------------
(* Properties of Target.CheckPreconditions, checked under SpecPre *)

\* the pattern has a star
HasStar(pattern) == \E i \in 1..Len(pattern) : pattern[i] = "*"

\* the positions of the pattern at which the placeholder starts
Occurrences(pattern, placeholder) ==
    {i \in 1..Len(pattern) :
        i + Len(placeholder) - 1 <= Len(pattern)
        /\ \A j \in 1..Len(placeholder) : pattern[i + j - 1] = placeholder[j]}

\* some placeholder occurs twice or more in the pattern
HasDuplicate(pattern) ==
    \E k \in 1..Len(Placeholders) : Cardinality(Occurrences(pattern, Placeholders[k])) >= 2

\* the call of CheckPreconditions recorded at position k of the trace found
\* ValidPath accepting the pattern
ValidPathPassed(k) == trace[k].b = <<>>

\* C1: CheckPreconditions returns an error for every pattern that contains a star,
\* and never returns the error of the wildcard rule for a pattern that contains none.
C1_WildcardRule ==
    pc = "done" =>
        /\ HasStar(targets[1].File) => ~runErr.nil
        /\ ~HasStar(targets[1].File) => runErr # ErrStars

\* a pattern with a star was rejected by the wildcard rule, ValidPath having passed
C1_Witness ==
    /\ pc = "done"
    /\ HasStar(targets[1].File)
    /\ ValidPathPassed(1)
    /\ runErr = ErrStars

\* C2 as claimed: validation fails when a placeholder occurs twice or more, and
\* passes when each occurs at most once (here for the patterns ValidPath accepts).
C2_AsClaimed ==
    (pc = "done" /\ ValidPathPassed(1)) =>
        /\ HasDuplicate(targets[1].File) => ~runErr.nil
        /\ ~HasDuplicate(targets[1].File) => runErr.nil

\* C2 amended: validation fails when a placeholder occurs twice or more; when each
\* occurs at most once, it passes exactly if the pattern has no star and ValidPath
\* accepts it, so the rule of the duplicates rejects no such pattern.
C2_DuplicateRule ==
    pc = "done" =>
        /\ HasDuplicate(targets[1].File) => ~runErr.nil
        /\ ~HasDuplicate(targets[1].File) =>
              (runErr.nil <=> (~HasStar(targets[1].File) /\ ValidPathPassed(1)))

\* a pattern without star that ValidPath accepts was rejected for its duplicate
C2_Witness ==
    /\ pc = "done"
    /\ HasDuplicate(targets[1].File)
    /\ ~HasStar(targets[1].File)
    /\ ValidPathPassed(1)
    /\ ~runErr.nil

\* the error is the one of the rule of the duplicates
IsErrDuplicated(err) ==
    ~err.nil /\ Contains(err.msg, <<" can only occur once in a file pattern!">>)

-----------------------------------------------------------------------------
(* Properties of Run and Pull, checked under Spec *)

\* the number of calls of op made for file i of target t: all of them, and those
\* that succeeded
NCalls(op, t, i) ==
    Cardinality({k \in DOMAIN trace :
                    trace[k].op = op /\ trace[k].t = t /\ trace[k].i = i})

NCallsOk(op, t, i) ==
    Cardinality({k \in DOMAIN trace :
                    trace[k].op = op /\ trace[k].t = t /\ trace[k].i = i /\ trace[k].ok})

\* the calls made for one file of a target
FileOps == {"mkdir", "create", "LocaleDownload", "WriteFile", "sharedMessage"}

\* the calls that fail a Pull when they fail
FailingOps ==
    {"CheckPreconditions", "RemoteLocales", "LocaleFiles", "create", "LocaleDownload",
     "WriteFile"}

\* Pull of target t returned, with an error or with nil
PullFailed(t) == \E k \in DOMAIN trace : trace[k].op = "Pull" /\ trace[k].t = t /\ ~trace[k].ok
PullSucceeded(t) == \E k \in DOMAIN trace : trace[k].op = "Pull" /\ trace[k].t = t /\ trace[k].ok

\* the record passes the filter of the selector of target t
Survives(t, r) ==
    LET sel == targets[t].Params.LocaleID
    IN  sel = <<>> \/ r.ID = sel \/ r.Name = sel

\* the records of the catalog of target t that pass the filter, in catalog order
Survivors(t) == SelectSeq(targets[t].RemoteLocales, LAMBDA r : Survives(t, r))

\* C3: when the transfer (download or write) of file k of a target fails, each of the
\* files 1..k-1 has exactly one success notification, file k has exactly one error
\* report and no success notification, Pull has returned an error and the run has
\* ended with it, and nothing was done for a file after k.
C3_TransferFailureStopsLoop ==
    \A k \in DOMAIN trace :
        (trace[k].op \in {"LocaleDownload", "WriteFile"} /\ ~trace[k].ok) =>
            LET t == trace[k].t
                i == trace[k].i
            IN  /\ \A j \in 1..(i - 1) : NCalls("sharedMessage", t, j) = 1
                /\ NCalls("sharedMessage", t, i) = 0
                /\ NCalls("ReportError", t, i) = 1
                /\ \A h \in DOMAIN trace :
                      (trace[h].t = t /\ trace[h].op \in FileOps \cup {"ReportError"})
                          => trace[h].i <= i
                /\ PullFailed(t)
                /\ pc = "done" /\ ~runErr.nil

\* the transfer of the second file of a target failed after the first succeeded
C3_Witness ==
    \E k \in DOMAIN trace :
        /\ trace[k].op \in {"LocaleDownload", "WriteFile"}
        /\ ~trace[k].ok
        /\ trace[k].i = 2
        /\ NCalls("sharedMessage", trace[k].t, 1) = 1
        /\ NCalls("ReportError", trace[k].t, 2) = 1

\* C4: when Pull returns nil, every file of the resolution (one per record that passes
\* the filter) has had one successful download and one successful write and no step
\* of the target failed; when a precondition, catalog fetch, resolution, file
\* creation, download or write fails, Pull returns an error.
C4_NilOnlyIfAllTransferred ==
    /\ \A k \in DOMAIN trace :
          (trace[k].op = "Pull" /\ trace[k].ok) =>
              LET t == trace[k].t
              IN  /\ trace[k].i = Len(Survivors(t))
                  /\ \A j \in 1..trace[k].i :
                        /\ NCallsOk("LocaleDownload", t, j) = 1
                        /\ NCallsOk("WriteFile", t, j) = 1
                  /\ \A h \in DOMAIN trace :
                        (trace[h].t = t /\ trace[h].op \in FailingOps) => trace[h].ok
    /\ \A k \in DOMAIN trace :
          (trace[k].op \in FailingOps /\ ~trace[k].ok) =>
              /\ \E h \in DOMAIN trace :
                    h > k /\ trace[h].op = "Pull" /\ trace[h].t = trace[k].t /\ ~trace[h].ok
              /\ ~PullSucceeded(trace[k].t)
              /\ pc = "done" /\ ~runErr.nil

\* Pull returned nil after the transfer of two files
C4_Witness ==
    \E k \in DOMAIN trace :
        /\ trace[k].op = "Pull" /\ trace[k].ok /\ trace[k].i = 2
        /\ NCallsOk("WriteFile", trace[k].t, 2) = 1

\* the files of the entries of the configuration that are not null, in their order
RECURSIVE ConfiguredFiles(_)
ConfiguredFiles(items) ==
    IF Len(items) = 0 THEN <<>>
    ELSE IF Head(items).null THEN ConfiguredFiles(Tail(items))
    ELSE <<Head(items).file>> \o ConfiguredFiles(Tail(items))

\* C5: the targets are pulled one at a time in the order of the configuration, and
\* the first Pull that returns an error ends the run: Run returns that error and
\* nothing is done for a later target.
C5_FirstErrorAbortsRun ==
    /\ pc \notin {"start", "done"} =>
          [k \in 1..Len(targets) |-> targets[k].File] = ConfiguredFiles(config.Targets.items)
    /\ \A a, b \in DOMAIN trace : a < b => trace[a].t <= trace[b].t
    /\ \A k \in DOMAIN trace :
          trace[k].t > 1 =>
              \E h \in 1..(k - 1) :
                  trace[h].op = "Pull" /\ trace[h].t = trace[k].t - 1 /\ trace[h].ok
    /\ \A k \in DOMAIN trace :
          (trace[k].op = "Pull" /\ ~trace[k].ok) =>
              /\ k = Len(trace)
              /\ pc = "done"
              /\ runErr = Err(trace[k].a)

\* the first of two targets failed, and the run ended without a call for the second
C5_Witness ==
    /\ Len(targets) = 2
    /\ PullFailed(1)
    /\ pc = "done"
    /\ Len(trace) > 2

\* the resolution of target t has been run
Resolved(t) == t < ti \/ (t = ti /\ pc \notin {"check", "fetch", "resolve"})

\* C6: when the pattern of a target contains <locale_code> and a record that passes
\* the filter of the selector has an empty code, the resolution fails (it returns an
\* error and no file, or stops at a nil record), and no file is created and no
\* download is made for the target.
C6_EmptyCodeFailsResolution ==
    \A t \in 1..Len(targets) :
        ( /\ Resolved(t)
          /\ Contains(targets[t].File, LocaleCodePH)
          /\ \E k \in DOMAIN targets[t].RemoteLocales :
                LET r == targets[t].RemoteLocales[k]
                IN  ~r.nil /\ Survives(t, r) /\ r.Code = <<>> )
        => /\ \A h \in DOMAIN trace : trace[h].t = t => trace[h].op \notin FileOps
           /\ t = ti => localeFiles = <<>>
           /\ ~PullSucceeded(t)
           /\ \/ pc = "panic"
              \/ /\ PullFailed(t)
                 /\ NCalls("LocaleFiles", t, 0) = 1 /\ NCallsOk("LocaleFiles", t, 0) = 0

\* the resolution failed at the second record, the first being valid
C6_Witness ==
    /\ pc = "done"
    /\ ti = 1
    /\ PullFailed(1)
    /\ Contains(targets[1].File, LocaleCodePH)
    /\ Len(targets[1].RemoteLocales) = 2
    /\ targets[1].RemoteLocales[1] = L1
    /\ targets[1].RemoteLocales[2] = L3
    /\ NCalls("LocaleFiles", 1, 0) = 1
    /\ NCalls("ReportError", 1, 0) = 1


\* the catalog of target t is made of distinct records that all have a code, and the
\* pattern of the target uses <locale_code>
DistinctCodedCatalog(t) ==
    LET cat == targets[t].RemoteLocales
    IN  /\ Contains(targets[t].File, LocaleCodePH)
        /\ \A k \in DOMAIN cat : ~cat[k].nil /\ cat[k].Code # <<>>
        /\ \A j, k \in DOMAIN cat : j # k => cat[j] # cat[k]

\* the positions of the catalog of target t whose record has the selector as its id
\* or as its name
Matching(t) ==
    {k \in DOMAIN targets[t].RemoteLocales :
        \/ targets[t].RemoteLocales[k].ID = targets[t].Params.LocaleID
        \/ targets[t].RemoteLocales[k].Name = targets[t].Params.LocaleID}

C8_SelectorIsDownloadID ==
    \A k \in DOMAIN trace :
        ( /\ trace[k].op = "LocaleDownload"
          /\ targets[trace[k].t].Params.LocaleID # <<>>
          /\ NCalls("LocaleFiles", trace[k].t, 1) = 1 )
        => trace[k].a = targets[trace[k].t].Params.LocaleID

\* the record was selected by its name, and the download was called with the name
C8_Witness ==
    \E k \in DOMAIN trace :
        /\ trace[k].op = "LocaleDownload"
        /\ targets[trace[k].t].Params.LocaleID = S_German
        /\ NCalls("LocaleFiles", trace[k].t, 1) = 1
        /\ Survivors(trace[k].t) = <<L2>>
        /\ trace[k].a = S_German

\* CheckPreconditions has been called for target t
Checked(t) == NCalls("CheckPreconditions", t, 0) > 0

\* C9: when the pattern of a target has a star or a duplicated placeholder, Pull
\* returns the error of CheckPreconditions right after the check: the catalog is
\* not fetched, nothing is resolved, no file is created, no download is made and no
\* success is reported for the target; and a resolution that fails leaves no file
\* resolved.
C9_PreconditionFailsBeforeFetch ==
    /\ \A t \in 1..Len(targets) :
          (Checked(t) /\ (HasStar(targets[t].File) \/ HasDuplicate(targets[t].File))) =>
              /\ \E k \in 1..(Len(trace) - 1) :
                    /\ trace[k].op = "CheckPreconditions" /\ trace[k].t = t /\ ~trace[k].ok
                    /\ trace[k + 1].op = "Pull" /\ trace[k + 1].t = t /\ ~trace[k + 1].ok
                    /\ runErr = Err(trace[k + 1].a)
              /\ \A h \in DOMAIN trace :
                    trace[h].t = t =>
                        trace[h].op \notin FileOps \cup {"RemoteLocales", "LocaleFiles"}
              /\ targets[t].RemoteLocales = <<>>
              /\ pc = "done"
    /\ \A k \in DOMAIN trace :
          (trace[k].op = "LocaleFiles" /\ ~trace[k].ok) =>
              (trace[k].i = 0 /\ localeFiles = <<>>)

\* a pattern with a star that ValidPath accepts was rejected, and the run ended
C9_Witness ==
    /\ pc = "done"
    /\ ti >= 1
    /\ HasStar(targets[ti].File)
    /\ \E k \in DOMAIN trace :
          trace[k].op = "CheckPreconditions" /\ trace[k].t = ti /\ ValidPathPassed(k)
    /\ runErr = ErrStars

\* C10: the resolution returns one file per record that passes the filter, in the
\* order of the catalog and with the id, name and code of its record, also when two
\* records give the same path; the files are transferred in that order, each download
\* being called with the id of its record unless the selector replaces it; the pattern
\* /locales/<locale_code>.yml with the catalog [l1/en, l2/de] gives /locales/en.yml
\* with l1 and /locales/de.yml with l2.
C10_CatalogOrderNoDedup ==
    /\ (pc = "create" /\ fi = 1) =>
          /\ Len(localeFiles) = Len(Survivors(ti))
          /\ \A k \in DOMAIN localeFiles :
                /\ localeFiles[k].ID = Survivors(ti)[k].ID
                /\ localeFiles[k].Name = Survivors(ti)[k].Name
                /\ localeFiles[k].RFC = Survivors(ti)[k].Code
          /\ ( /\ targets[ti].File = S_locales \o LocaleCodePH \o S_yml
               /\ targets[ti].RemoteLocales = <<L1, L2>>
               /\ targets[ti].Params.LocaleID = <<>> )
             => [k \in DOMAIN localeFiles |-> <<localeFiles[k].Path, localeFiles[k].ID>>]
                    = << <<S_locales \o S_en \o S_yml, S_l1>>,
                         <<S_locales \o S_de \o S_yml, S_l2>> >>
    /\ \A a, b \in DOMAIN trace :
          ( /\ a < b
            /\ trace[a].op = "LocaleDownload" /\ trace[b].op = "LocaleDownload"
            /\ trace[a].t = trace[b].t )
          => trace[a].i < trace[b].i
    /\ \A k \in DOMAIN trace :
          (trace[k].op = "LocaleDownload" /\ trace[k].t = ti) =>
              /\ trace[k].i <= Len(Survivors(ti))
              /\ (targets[ti].Params.LocaleID = <<>> \/ Len(Survivors(ti)) # 1)
                    => trace[k].a = Survivors(ti)[trace[k].i].ID
    /\ \A k \in DOMAIN trace :
          (trace[k].op \in {"WriteFile", "sharedMessage"} /\ trace[k].t = ti) =>
              trace[k].a = localeFiles[trace[k].i].Path
    /\ \A t \in 1..Len(targets) :
          PullSucceeded(t) =>
              \A j \in 1..Len(Survivors(t)) : NCallsOk("LocaleDownload", t, j) = 1

\* two records gave the same path, and both files were transferred
C10_Witness ==
    /\ pc = "done"
    /\ runErr.nil
    /\ Len(localeFiles) = 2
    /\ localeFiles[1].Path = localeFiles[2].Path
    /\ localeFiles[1].ID # localeFiles[2].ID
    /\ NCalls("sharedMessage", ti, 1) = 1
    /\ NCalls("sharedMessage", ti, 2) = 1

\* LocaleFiles has just returned exactly one file to Pull for a target with a selector
OneFileSelected ==
    /\ pc = "create"
    /\ fi = 1
    /\ NCalls("create", ti, 1) = 0
    /\ Len(localeFiles) = 1
    /\ targets[ti].Params.LocaleID # <<>>

\* C14 as claimed: when exactly one record passes the filter and a selector is set, the
\* file LocaleFiles returns has the selector as its locale id.
C14_AsClaimed ==
    OneFileSelected => localeFiles[1].ID = targets[ti].Params.LocaleID

\* C14 amended: the file LocaleFiles returns has the id of its record, also when the
\* record was selected by its name; Pull puts the selector in its place after the
\* destination was created, before the download. The pattern /locales/<locale_name>.yml
\* with the selector l2, which is the id of the record German, gives the one file
\* /locales/German.yml with the id l2.
C14_SelectorSetByPull ==
    /\ OneFileSelected =>
          /\ localeFiles[1].ID = Survivors(ti)[1].ID
          /\ ( /\ targets[ti].File = S_locales \o LocaleNamePH \o S_yml
               /\ targets[ti].Params.LocaleID = S_l2
               /\ Survivors(ti) = <<L2>> )
             => ( /\ localeFiles[1].Path = S_locales \o S_German \o S_yml
                  /\ localeFiles[1].ID = S_l2 )
    /\ (pc = "transfer" /\ Len(localeFiles) = 1 /\ targets[ti].Params.LocaleID # <<>>)
          => localeFiles[1].ID = targets[ti].Params.LocaleID

\* the record l2 was selected by its name, and the file LocaleFiles returned has the
\* id l2
C14_Witness ==
    /\ OneFileSelected
    /\ targets[ti].Params.LocaleID = S_German
    /\ targets[ti].File = S_locales \o LocaleNamePH \o S_yml
    /\ localeFiles[1].ID = S_l2
    /\ localeFiles[1].Path = S_locales \o S_German \o S_yml

\* the calls Pull makes once at most for a target or for a file of it
SingleOps ==
    {"CheckPreconditions", "RemoteLocales", "LocaleFiles", "mkdir", "create",
     "LocaleDownload", "WriteFile", "sharedMessage", "Pull"}

\* target t is past the catalog fetch of its Pull
Fetched(t) == t < ti \/ (t = ti /\ pc # "fetch")

\* C16: nothing is retried and no catalog is kept: for every target that passed its
\* preconditions RemoteLocales is called exactly once, for the project of that target,
\* and the catalog the target is resolved on is the one that call returned; no call is
\* made twice for the same target or the same file of it (at most one download per
\* file); and after a call that failed, nothing follows but the report of the error
\* and the return of Pull.
C16_NoRetryNoCache ==
    /\ \A t \in 1..Len(targets) :
          (NCallsOk("CheckPreconditions", t, 0) = 1 /\ Fetched(t)) =>
              /\ NCalls("RemoteLocales", t, 0) = 1
              /\ NCallsOk("RemoteLocales", t, 0) = 1 =>
                    targets[t].RemoteLocales = remote[targets[t].ProjectID]
    /\ \A k \in DOMAIN trace :
          trace[k].op = "RemoteLocales" => trace[k].a = targets[trace[k].t].ProjectID
    /\ \A j, k \in DOMAIN trace :
          ( /\ j # k
            /\ trace[j].op \in SingleOps
            /\ trace[j].op = trace[k].op /\ trace[j].t = trace[k].t )
          => trace[j].i # trace[k].i
    /\ \A k \in DOMAIN trace :
          (trace[k].op \in FailingOps /\ ~trace[k].ok) =>
              \A h \in (k + 1)..Len(trace) :
                  /\ trace[h].op \in {"ReportError", "Pull"}
                  /\ trace[h].t = trace[k].t

\* two targets of different projects were each resolved on a catalog of their own, and
\* a download failed for the second
C16_Witness ==
    /\ pc = "done"
    /\ Len(targets) = 2
    /\ NCallsOk("RemoteLocales", 1, 0) = 1
    /\ NCallsOk("RemoteLocales", 2, 0) = 1
    /\ targets[1].RemoteLocales # targets[2].RemoteLocales
    /\ NCalls("LocaleDownload", 2, 1) = 1
    /\ NCallsOk("LocaleDownload", 2, 1) = 0
    /\ ~runErr.nil

-----------------------------------------------------------------------------
(* Properties of Target.ReplacePlaceholders, checked under SpecExpand *)

\* the text with every placeholder that stands in it replaced by its value, the values
\* themselves left as they are
RECURSIVE Substituted(_, _, _, _)
Substituted(s, name, code, tag) ==
    LET starts(ph) == Len(s) >= Len(ph) /\ SubSeq(s, 1, Len(ph)) = ph
        rest(ph) == SubSeq(s, Len(ph) + 1, Len(s))
    IN  IF Len(s) = 0 THEN <<>>
        ELSE IF starts(LocaleNamePH)
        THEN name \o Substituted(rest(LocaleNamePH), name, code, tag)
        ELSE IF starts(LocaleCodePH)
        THEN code \o Substituted(rest(LocaleCodePH), name, code, tag)
        ELSE IF starts(TagPH)
        THEN tag \o Substituted(rest(TagPH), name, code, tag)
        ELSE <<Head(s)>> \o Substituted(Tail(s), name, code, tag)

\* the paths the calls of ReplacePlaceholders returned, in the order of the calls
Expanded == [k \in 1..Len(Calls("ReplacePlaceholders")) |-> Calls("ReplacePlaceholders")[k].a]

\* C11: ReplacePlaceholders returns the absolute form of the pattern with each
\* placeholder replaced by its value verbatim, whatever the value holds (a placeholder
\* token, a path separator), a placeholder that is not in the pattern adding nothing,
\* and it returns no error
C11_AsClaimed ==
    \A k \in 1..Len(Expanded) :
        /\ Calls("ReplacePlaceholders")[k].ok
        /\ Expanded[k] = Substituted(Abs(config.target.File), config.localeFile.Name,
                                     config.localeFile.RFC, config.localeFile.Tag)

-----------------------------------------------------------------------------
(* Properties of TargetsFromConfig, checked under SpecConfig *)

\* the entries of the targets list that are not null, in the order of the list
ConfiguredEntries == SelectSeq(config.Targets.items, LAMBDA raw : ~raw.null)

\* the value a target ends up with for a field that has a top-level default
OwnOrDefault(own, default) == IF own # <<>> THEN own ELSE default

\* C13: TargetsFromConfig merges the top-level defaults once: in every target it
\* returns, project id, access token and file format are the target's own value when
\* that is not empty and the top-level default when it is, the file pattern and the
\* params being the ones the target was loaded with
C13_DefaultsFillEmptyFields ==
    (pc = "done" /\ runErr.nil) =>
        /\ Len(targets) = Len(ConfiguredEntries)
        /\ \A k \in 1..Len(targets) :
             LET raw == ConfiguredEntries[k]
             IN  /\ targets[k].ProjectID = OwnOrDefault(raw.project_id, config.ProjectID)
                 /\ targets[k].AccessToken = OwnOrDefault(raw.access_token, config.Token)
                 /\ targets[k].FileFormat = OwnOrDefault(raw.file_format, config.FileFormat)
                 /\ targets[k].File = raw.file
                 /\ targets[k].Params.LocaleID =
                        (IF "locale_id" \in DOMAIN raw.params
                         THEN raw.params["locale_id"].str ELSE <<>>)
                 /\ targets[k].Params.Tag =
                        (IF "tag" \in DOMAIN raw.params
                         THEN Ptr(raw.params["tag"].str) ELSE NilPtr)

\* a target with a project of its own and no file format was merged with defaults that
\* set both, next to a target with params
C13_Witness ==
    /\ pc = "done"
    /\ runErr.nil
    /\ config.ProjectID = S_p1
    /\ config.FileFormat = S_fmt
    /\ Len(targets) = 2
    /\ ConfiguredEntries[1].project_id = S_p2
    /\ ConfiguredEntries[1].file_format = <<>>
    /\ targets[1].ProjectID = S_p2
    /\ targets[1].FileFormat = S_fmt
    /\ targets[2].Params.LocaleID = S_l1

-----------------------------------------------------------------------------
(* Properties of the resolved files, checked under Spec *)

\* the entry of the configuration target t was loaded from
EntryOf(t) == ConfiguredEntries[t]

\* the tag of the params of the entry, empty when it has none
ConfiguredTag(raw) ==
    IF "tag" \in DOMAIN raw.params THEN raw.params["tag"].str ELSE <<>>

\* the file format the entry asks for: the one of its params, else its own, else the
\* top-level default
ConfiguredFormat(raw) ==
    IF "file_format" \in DOMAIN raw.params THEN raw.params["file_format"].str
    ELSE OwnOrDefault(raw.file_format, config.FileFormat)

\* C17: every file the resolution returns has the id and the code of its record, the
\* tag of the params of its target (empty when they have none) and the file format of
\* the params when they set one, else the file format of the target, which is the
\* top-level default when the target set none; every download is called with that
\* file format.
C17_TagAndFormatFromTarget ==
    /\ (pc = "create" /\ fi = 1 /\ NCalls("create", ti, 1) = 0) =>
          \A k \in DOMAIN localeFiles :
              /\ localeFiles[k].ID = Survivors(ti)[k].ID
              /\ localeFiles[k].RFC = Survivors(ti)[k].Code
              /\ localeFiles[k].Tag = ConfiguredTag(EntryOf(ti))
              /\ localeFiles[k].FileFormat = ConfiguredFormat(EntryOf(ti))
    /\ \A k \in DOMAIN trace :
          trace[k].op = "LocaleDownload" => trace[k].b = ConfiguredFormat(EntryOf(trace[k].t))

\* a download was called with the file format of the params of a target that has a
\* file format of its own, after one called with the top-level default
C17_Witness ==
    /\ Len(targets) = 2
    /\ EntryOf(1).file_format = <<>>
    /\ "file_format" \notin DOMAIN EntryOf(1).params
    /\ EntryOf(2).file_format = S_json
    /\ \E j, k \in DOMAIN trace :
          /\ trace[j].op = "LocaleDownload" /\ trace[j].t = 1 /\ trace[j].b = S_fmt
          /\ trace[k].op = "LocaleDownload" /\ trace[k].t = 2 /\ trace[k].b = S_xml
    /\ localeFiles[1].Tag = S_v1

-----------------------------------------------------------------------------
(* Properties of createFile, checked under Spec *)

\* the calls the step adds to the trace that are calls of op
Added(op) ==
    SelectSeq(SubSeq(trace', Len(trace) + 1, Len(trace')), LAMBDA e : e.op = op)

\* C18: createFile leaves a destination that exists as it is: no file and no directory
\* changes and nothing is created, the transfer being the next step; when the
\* destination is missing, the parent directory is created if it is missing too (and
\* only then), and after that one call creates the file, which is empty when the call
\* succeeds; no other file changes.
C18_ExistingDestinationKept ==
    [][pc = "create" =>
        LET path == localeFiles[fi].Path
        IN  IF Exists(path, fs, dirs)
            THEN /\ fs' = fs
                 /\ dirs' = dirs
                 /\ Added("mkdir") = <<>> /\ Added("create") = <<>>
                 /\ pc' = "transfer"
            ELSE /\ Len(Added("create")) = 1
                 /\ Added("create")[1].a = path
                 /\ Len(Added("mkdir")) = (IF Exists(Dir(path), fs, dirs) THEN 0 ELSE 1)
                 /\ \A k \in DOMAIN Added("mkdir") :
                       /\ Added("mkdir")[k].a = Dir(path)
                       /\ trace'[Len(trace) + 1].op = "mkdir"
                       /\ Added("mkdir")[k].ok <=> Dir(path) \in dirs'
                 /\ Exists(Dir(path), fs, dirs) => dirs' = dirs
                 /\ Added("create")[1].ok =>
                       /\ Dir(path) \in dirs'
                       /\ Clean(path) \in DOMAIN fs'
                       /\ fs'[Clean(path)] = <<>>
                       /\ pc' = "transfer"
                 /\ ~Added("create")[1].ok => (fs' = fs /\ pc' = "done")
                 /\ \A q \in DOMAIN fs : q \in DOMAIN fs' /\ fs'[q] = fs[q]
    ]_vars

\* the destination was there before the run, createFile has returned, and the file
\* still has its content
C18_Witness ==
    /\ pc = "transfer"
    /\ NCalls("create", ti, fi) = 0
    /\ Clean(localeFiles[fi].Path) \in DOMAIN fs
    /\ fs[Clean(localeFiles[fi].Path)] = S_old

-----------------------------------------------------------------------------
(* Properties of the failures of the filesystem, checked under Spec *)

\* C19: when the creation of a directory or of a file, or the write of a file, fails
\* for file i of a target, Pull stops at that file as it does when a download fails:
\* Pull returns an error and the run ends with an error, no success is reported for
\* the file, nothing is downloaded for it after a failed creation, and nothing is
\* done for a later file or a later target.
C19_FilesystemFailureStopsPull ==
    \A k \in DOMAIN trace :
        (trace[k].op \in {"mkdir", "create", "WriteFile"} /\ ~trace[k].ok) =>
            LET t == trace[k].t
                i == trace[k].i
            IN  /\ trace[Len(trace)].op = "Pull"
                /\ trace[Len(trace)].t = t
                /\ ~trace[Len(trace)].ok
                /\ pc = "done" /\ ~runErr.nil
                /\ NCalls("sharedMessage", t, i) = 0
                /\ trace[k].op \in {"mkdir", "create"} =>
                      (NCalls("LocaleDownload", t, i) = 0 /\ NCalls("WriteFile", t, i) = 0)
                /\ \A h \in DOMAIN trace :
                      /\ trace[h].t <= t
                      /\ (trace[h].t = t /\ trace[h].op \in FileOps) => trace[h].i <= i

\* the directory of the first of two files of the first of two targets could not be
\* created, and the run has ended
C19_Witness ==
    /\ pc = "done"
    /\ Len(targets) = 2
    /\ Len(localeFiles) = 2
    /\ \E k \in DOMAIN trace :
          /\ trace[k].op = "mkdir" /\ ~trace[k].ok /\ trace[k].t = 1 /\ trace[k].i = 1
          /\ trace[k + 1].op = "create" /\ ~trace[k + 1].ok

-----------------------------------------------------------------------------
(* Properties of Target.UnmarshalYAML, checked under SpecLoad *)

\* the calls of ApplyValuesFromMap
Applied == Calls("ApplyValuesFromMap")

\* C20: UnmarshalYAML takes locale_id out of the params before the others are applied:
\* a locale_id that is no string fails the load before anything is applied; otherwise
\* ApplyValuesFromMap is called once, on every other key with its value and never on
\* locale_id, the selector being the value of locale_id, or empty when the params have
\* none; a load whose other keys are download options succeeds.
C20_LocaleIdNeverApplied ==
    pc = "done" =>
        LET m == EntryOf(1).params
            others == SelectSeq(MapKeys(m), LAMBDA k : k # "locale_id")
        IN  /\ \A j \in DOMAIN Applied : \A h \in DOMAIN Applied[j].a :
                  Applied[j].a[h] # "locale_id"
            /\ IF "locale_id" \in DOMAIN m /\ m["locale_id"].type # "string"
               THEN ~runErr.nil /\ Applied = <<>>
               ELSE /\ Len(Applied) = 1
                    /\ Applied[1].a = others
                    /\ Applied[1].b = ValuesOf(m, others)
                    /\ runErr.nil <=> Applied[1].ok
                    /\ targets[1].Params.LocaleID =
                          (IF "locale_id" \in DOMAIN m THEN m["locale_id"].str ELSE <<>>)
                    /\ (\A h \in DOMAIN others :
                            others[h] \in ParamKeys /\ m[others[h]].type = "string")
                          => runErr.nil

\* params with a locale_id, a tag and a file format were loaded: the selector is set
\* and the two others were applied
C20_Witness ==
    /\ pc = "done"
    /\ runErr.nil
    /\ DOMAIN EntryOf(1).params = {"locale_id", "tag", "file_format"}
    /\ targets[1].Params.LocaleID = S_l2
    /\ Applied[1].a = <<"file_format", "tag">>
    /\ targets[1].Params.Tag = Ptr(S_v1)

-----------------------------------------------------------------------------
(* Properties of the errors of Pull, checked under Spec *)

\* the text of the failure of the transfer of a file: the error of the download or of
\* the write, followed by the path of the file
Annotated(k) ==
    (IF trace[k].op = "LocaleDownload" THEN <<"download failed">>
     ELSE <<"write ">> \o trace[k].a)
    \o <<" for ">> \o localeFiles[trace[k].i].Path

\* C21: when the download or the write of a file fails, the error is reported once,
\* and the message reported and the error Pull returns are the same text: the error of
\* the transfer followed by the path of the file.
C21_AsClaimed ==
    \A k \in DOMAIN trace :
        (trace[k].op \in {"LocaleDownload", "WriteFile"} /\ ~trace[k].ok) =>
            /\ NCalls("ReportError", trace[k].t, trace[k].i) = 1
            /\ \A h \in DOMAIN trace :
                  (trace[h].op = "ReportError" /\ trace[h].t = trace[k].t
                   /\ trace[h].i = trace[k].i) => trace[h].a = Annotated(k)
            /\ \A h \in DOMAIN trace :
                  (trace[h].op = "Pull" /\ trace[h].t = trace[k].t) =>
                      trace[h].a = Annotated(k)

\* C30: when createFile fails, Pull returns the error of createFile as it is, without
\* the path added to it, and gives nothing to ReportError for the file; when the
\* download or the write fails, the error is given to ReportError once and the error
\* Pull returns is made from the error with the path added.
C30_CreateErrorIsRaw ==
    \A k \in DOMAIN trace :
        /\ (trace[k].op = "create" /\ ~trace[k].ok) =>
              /\ NCalls("ReportError", trace[k].t, trace[k].i) = 0
              /\ trace[Len(trace)].op = "Pull"
              /\ trace[Len(trace)].a = <<"open ">> \o trace[k].a
              /\ runErr = Err(<<"open ">> \o trace[k].a)
        /\ (trace[k].op \in {"LocaleDownload", "WriteFile"} /\ ~trace[k].ok) =>
              /\ NCalls("ReportError", trace[k].t, trace[k].i) = 1
              /\ \E h \in DOMAIN trace :
                    /\ trace[h].op = "ReportError" /\ trace[h].t = trace[k].t
                    /\ trace[h].i = trace[k].i /\ trace[h].a = Annotated(k)
              /\ trace[Len(trace)].op = "Pull"
              /\ trace[Len(trace)].a = Errorf(Annotated(k))
              /\ runErr = Err(Errorf(Annotated(k)))

\* the second file of a target could not be created after the first was transferred,
\* and the run ended with the error of the creation
C30_Witness ==
    /\ pc = "done"
    /\ \E k \in DOMAIN trace :
          /\ trace[k].op = "create" /\ ~trace[k].ok /\ trace[k].i = 2
          /\ NCalls("sharedMessage", trace[k].t, 1) = 1
          /\ runErr = Err(<<"open ">> \o trace[k].a)

-----------------------------------------------------------------------------
(* Properties of the selector, checked under Spec *)

\* the catalog of target t has no nil record, and no record of it has the selector of
\* the target as its id or as its name
NothingMatches(t) ==
    /\ targets[t].Params.LocaleID # <<>>
    /\ \A k \in DOMAIN targets[t].RemoteLocales : ~targets[t].RemoteLocales[k].nil
    /\ Matching(t) = {}

C23_NoOverrideForSeveral ==
    \A k \in DOMAIN trace :
        ( /\ trace[k].op = "LocaleDownload"
          /\ targets[trace[k].t].Params.LocaleID # <<>>
          /\ Len(Survivors(trace[k].t)) >= 2 )
        => trace[k].a = Survivors(trace[k].t)[trace[k].i].ID

\* the selector l1 is the id of one record and the name of another, and the second
\* file was downloaded with the id l4 of its record
C23_Witness ==
    \E k \in DOMAIN trace :
        /\ trace[k].op = "LocaleDownload"
        /\ trace[k].i = 2
        /\ targets[trace[k].t].Params.LocaleID = S_l1
        /\ Survivors(trace[k].t) = <<L1, L4>>
        /\ trace[k].a = S_l4

-----------------------------------------------------------------------------
(* Properties of the destinations after a failed download, checked under Spec *)

-----------------------------------------------------------------------------
(* Properties of the targets of a run, checked under Spec *)

\* Run returned the error of NewClient, before the targets were loaded
ClientFailed == pc = "done" /\ runErr = Err(<<"invalid credentials">>) /\ trace = <<>>

\* the targets are the entries of the configuration that are not null, in their order
TargetsAreEntries ==
    /\ Len(targets) = Len(ConfiguredEntries)
    /\ \A k \in DOMAIN targets :
          /\ ~targets[k].nil
          /\ targets[k].File = ConfiguredEntries[k].file
          /\ targets[k].Params.LocaleID = UnmarshalYAML(ConfiguredEntries[k]).target.Params.LocaleID

\* every entry of the configuration that is not null loads
EntriesLoad ==
    \A k \in DOMAIN ConfiguredEntries : UnmarshalYAML(ConfiguredEntries[k]).err.nil

\* C29 as claimed: TargetsFromConfig returns an error and no target when the
\* configuration has no targets or only null ones, and the targets that are not null,
\* in their order, for every other configuration; Run returns nil only after the Pull
\* of a target returned nil.
C29_AsClaimed ==
    /\ (pc # "start" /\ ~ClientFailed) =>
          IF config.Targets.empty \/ Len(ConfiguredEntries) = 0
          THEN pc = "done" /\ ~runErr.nil /\ targets = <<>>
          ELSE TargetsAreEntries
    /\ (pc = "done" /\ runErr.nil) => PullSucceeded(1)

\* C29 amended: TargetsFromConfig returns an error and no target when the configuration
\* has no targets, when an entry does not load (the error is then the one of the
\* load) or when every entry is null; otherwise it returns the targets that are not
\* null, in their order; Run returns nil only after the Pull of a target returned nil.
C29_NoTargetsNoRun ==
    /\ (pc # "start" /\ ~ClientFailed) =>
          IF config.Targets.empty
          THEN pc = "done" /\ runErr = ErrNoTargets /\ targets = <<>>
          ELSE IF ~EntriesLoad
          THEN pc = "done" /\ ~runErr.nil /\ targets = <<>>
               /\ runErr \notin {ErrNoTargets, ErrNoValidTargets}
          ELSE IF Len(ConfiguredEntries) = 0
          THEN pc = "done" /\ runErr = ErrNoValidTargets /\ targets = <<>>
          ELSE TargetsAreEntries
    /\ (pc = "done" /\ runErr.nil) => PullSucceeded(1)

\* a configuration of two null entries ended the run with the error of the targets
C29_Witness ==
    /\ pc = "done"
    /\ ~config.Targets.empty
    /\ Len(config.Targets.items) = 2
    /\ Len(ConfiguredEntries) = 0
    /\ runErr = ErrNoValidTargets
    /\ targets = <<>>
    /\ NCalls("ReportError", 0, 0) = 1

-----------------------------------------------------------------------------
(* Properties of the setup wizard, checked under SpecWizard *)

\* the step on top of the stack is about to run the function fn from its first line
Starts(fn) == pc = "wizard" /\ Len(stack) > 0 /\ Top.fn = fn /\ Top.at = "start"

\* C25: writeConfig runs once at most in a run of the wizard, and a call of a step
\* that has called DisplayWizard reads no input after that: the call of
\* selectProjectStep that restarted the wizard after a 401 error does nothing when the
\* restarted wizard returns to it.
C25_AsClaimed ==
    /\ Len(Calls("writeConfig")) <= 1
    /\ \A j, k \in DOMAIN trace :
          (j < k /\ trace[j].op = "DisplayWizard" /\ trace[k].op = "Scanln")
              => trace[k].t # trace[j].t

\* C26: selectFormat accepts a line only when it is a number from 1 to the number of
\* the formats listed, and the format chosen is then the one at that place of the list;
\* for every other line it displays the step again with the argument error; and it
\* reads no element outside the list.
C26_AsClaimed ==
    /\ \A k \in DOMAIN trace : trace[k].op = "index" => trace[k].ok
    /\ \A k \in DOMAIN trace :
          (trace[k].op = "Scanln" /\ trace[k].a = <<"selectFormat">>) =>
              LET n == Atoi(trace[k].b)
              IN  IF ~n.err /\ n.number >= 1 /\ n.number <= Len(Formats)
                  THEN /\ trace[k + 1].op = "index"
                       /\ trace[k + 1].i = n.number - 1
                       /\ trace[k + 1].a = Formats[n.number]
                       /\ trace[k + 2].op = "DisplayWizard"
                       /\ trace[k + 2].a = <<"finish">>
                  ELSE /\ trace[k + 1].op = "DisplayWizard"
                       /\ trace[k + 1].a = <<"selectFormat">>
                       /\ trace[k + 1].b = ErrFormat

\* the token is 64 characters of 0-9 and a-f
ValidToken(token) ==
    /\ Len(token) = TokenLen
    /\ \A i \in 1..Len(token) :
          token[i] \in {"0","1","2","3","4","5","6","7","8","9","a","b","c","d","e","f"}

\* the functions of the steps that are not the token step
OtherSteps == {"selectProjectStep", "newProjectStep", "selectFormat", "writeConfig"}

\* C27: a step other than the token step starts, or goes on after a call it made, only
\* with an access token that is not empty; DisplayWizard runs the token step whenever
\* the token is empty, whatever the step it was asked for; the token step keeps the
\* lower-cased token when that is 64 characters of 0-9a-f and goes to the next step,
\* and otherwise empties the token and calls the token step again with an error.
C27_TokenGuardsSteps ==
    /\ [](\A k \in DOMAIN stack :
            (pc = "wizard" /\ k = Len(stack) /\ stack[k].fn \in OtherSteps
             /\ stack[k].at # "return")
                => ValidToken(data.AccessToken))
    /\ [][NumCalls' > NumCalls =>
            (data'.AccessToken = <<>> =>
                (stack'[Len(stack')].fn = "tokenStep" /\ data'.Step = "token"))]_vars
    /\ [][Starts("tokenStep") =>
            LET token == ToLower(Added("Scanln")[1].b)
                call == Added("DisplayWizard")[1]
            IN  IF ValidToken(token)
                THEN /\ data'.AccessToken = token
                     /\ call.a = <<"selectProject">> /\ call.b = <<>>
                     /\ stack'[Len(stack')].fn = "selectProjectStep"
                ELSE /\ data'.AccessToken = <<>>
                     /\ call.a = <<"">> /\ call.b = ErrToken
                     /\ stack'[Len(stack')].fn = "tokenStep"]_vars

\* the wizard was asked for the finish step with no token and ran the token step, which
\* refused a token of 63 characters and was run again
C27_Witness ==
    /\ Starts("tokenStep")
    /\ Len(trace) = 3
    /\ trace[1].a = <<"finish">>
    /\ trace[2].op = "Scanln" /\ Len(trace[2].b) = TokenLen - 1
    /\ trace[3].op = "DisplayWizard" /\ trace[3].b = ErrToken
    /\ data.AccessToken = <<>>

\* the steps a step may call through DisplayWizard
Successors(fn) ==
    IF fn = "tokenStep" THEN {"tokenStep", "selectProjectStep"}
    ELSE IF fn = "selectProjectStep"
    THEN {"tokenStep", "selectProjectStep", "newProjectStep", "selectFormat"}
    ELSE IF fn = "newProjectStep" THEN {"tokenStep", "newProjectStep", "selectFormat"}
    ELSE IF fn = "selectFormat" THEN {"selectFormat", "writeConfig"}
    ELSE {}

\* C28: a step calls only itself again, the token step, or the step after it in the
\* order token, selectProject (then newProject if asked for), selectFormat, finish;
\* so when writeConfig starts, the access token is 64 characters of 0-9a-f, the
\* project id is one selectProjectStep or newProjectStep has set, and the format is
\* one selectFormat has set.
C28_StepsInOrder ==
    /\ [][NumCalls' > NumCalls =>
            /\ Len(stack') = Len(stack) + 1
            /\ stack'[Len(stack')].fn \in Successors(Top.fn)]_vars
    /\ [](Starts("writeConfig") =>
            /\ ValidToken(data.AccessToken)
            /\ data.ProjectId \in {S_p1, S_p2, S_pn}
            /\ \E k \in DOMAIN Formats : data.Format = Formats[k]
            /\ data.Step = "selectFormat")

\* writeConfig starts for a project that newProjectStep created
C28_Witness ==
    /\ Starts("writeConfig")
    /\ data.ProjectId = S_pn
    /\ data.Format = Formats[2]
    /\ ValidToken(data.AccessToken)

====
